---- MODULE Spec2Model ----
(***************************************************************************)
(* A model of the approval proxy: the pattern engine and policy store      *)
(* (config.ts), the GraphQL normalizer (graphql.ts), the suggestion engine *)
(* (openapi.ts) and the per-request mediation core (proxy.ts).             *)
(*                                                                         *)
(* Text is a sequence of symbols.  A symbol is one character of the text   *)
(* ("/", " ", "?", "*", "(", ...) or an indivisible word that holds none   *)
(* of the separators the code looks for ("GET", "repos", "createUser").    *)
(* indexOf, slice, split, startsWith, includes and replaceAll are computed *)
(* on these sequences as the code computes them on characters.             *)
(***************************************************************************)
EXTENDS Integers, Sequences, FiniteSets, TLC

\* ------------------------------------------------------------------ text

\* null where a text is expected: a text no request holds
NULL == <<"\\null">>

SP == " "

RECURSIVE Concat(_)
\* ss.join("") for a sequence of texts
Concat(ss) == IF ss = <<>> THEN <<>> ELSE Head(ss) \o Concat(Tail(ss))

RECURSIVE IndexOf(_, _)
\* s.indexOf(c), 1-based; 0 stands for the -1 of the code
IndexOf(s, c) ==
  IF s = <<>> THEN 0
  ELSE IF Head(s) = c THEN 1
  ELSE LET i == IndexOf(Tail(s), c) IN IF i = 0 THEN 0 ELSE i + 1

\* s.slice(0, i) for the 1-based index i of a separator
Before(s, i) == SubSeq(s, 1, i - 1)

\* s.slice(i + 1) for the 1-based index i of a separator
After(s, i) == SubSeq(s, i + 1, Len(s))

\* s.startsWith(p)
StartsWith(s, p) == Len(s) >= Len(p) /\ SubSeq(s, 1, Len(p)) = p

\* s.includes(p)
Includes(s, p) ==
  \E i \in 1..(Len(s) - Len(p) + 1) : SubSeq(s, i, i + Len(p) - 1) = p

RECURSIVE ReplaceFirst(_, _, _)
\* s.replace(fake, real): only the first occurrence
ReplaceFirst(s, fake, real) ==
  IF fake = <<>> \/ Len(s) < Len(fake) THEN s
  ELSE IF StartsWith(s, fake)
       THEN real \o SubSeq(s, Len(fake) + 1, Len(s))
       ELSE <<Head(s)>> \o ReplaceFirst(Tail(s), fake, real)

RECURSIVE ReplaceAll(_, _, _)
\* s.replaceAll(fake, real): every occurrence, left to right, not overlapping
ReplaceAll(s, fake, real) ==
  IF fake = <<>> \/ Len(s) < Len(fake) THEN s
  ELSE IF StartsWith(s, fake)
       THEN real \o ReplaceAll(SubSeq(s, Len(fake) + 1, Len(s)), fake, real)
       ELSE <<Head(s)>> \o ReplaceAll(Tail(s), fake, real)

RECURSIVE Split(_, _)
\* s.split(c): the pieces between the separators c (at least one piece)
Split(s, c) ==
  LET i == IndexOf(s, c)
  IN IF i = 0 THEN <<s>> ELSE <<Before(s, i)>> \o Split(After(s, i), c)

RECURSIVE Join(_, _)
\* ss.join(c)
Join(ss, c) ==
  IF ss = <<>> THEN <<>>
  ELSE IF Len(ss) = 1 THEN Head(ss)
  ELSE Head(ss) \o <<c>> \o Join(Tail(ss), c)

RECURSIVE NonEmpty(_)
\* ss.filter((s) => s.length > 0)
NonEmpty(ss) ==
  IF ss = <<>> THEN <<>>
  ELSE IF Head(ss) = <<>> THEN NonEmpty(Tail(ss))
  ELSE <<Head(ss)>> \o NonEmpty(Tail(ss))

\* path.split("?")[0]
PathWithoutQuery(path) == Head(Split(path, "?"))

\* The elements of a sequence
Range(s) == {s[i] : i \in DOMAIN s}

\* list.includes(x)
ListIncludes(list, x) == \E i \in DOMAIN list : list[i] = x

\* ------------------------------------------------- GraphQL field strings

\* The outcome of a match: the two boolean results, or the Error that
\* matchValueNode throws
T == "true"
F == "false"
THROW == "throw"

\* The punctuators of the GraphQL lexer that occur in field strings
Punctuators == {"(", ")", ":", "{", "}", "[", "]", "$"}

\* The symbols that are integer literals
IntSymbols == {"0", "1", "2", "7"}

RECURSIVE Lex(_)
\* The token stream of the GraphQL lexer: white space and commas are ignored,
\* a quoted run is one string token
Lex(s) ==
  IF s = <<>> THEN <<>>
  ELSE LET c == Head(s)
       IN IF c \in {" ", ","} THEN Lex(Tail(s))
          ELSE IF c = "\""
               THEN LET j == IndexOf(Tail(s), "\"")
                    IN IF j = 0 THEN <<[t |-> "Error", v |-> <<>>]>>
                       ELSE <<[t |-> "String", v |-> Before(Tail(s), j)]>>
                            \o Lex(After(Tail(s), j))
          ELSE IF c \in Punctuators
               THEN <<[t |-> "Punct", v |-> <<c>>]>> \o Lex(Tail(s))
          ELSE IF c \in IntSymbols
               THEN <<[t |-> "Int", v |-> <<c>>]>> \o Lex(Tail(s))
          ELSE <<[t |-> "Name", v |-> <<c>>]>> \o Lex(Tail(s))

IsPunct(ts, c) == ts # <<>> /\ Head(ts).t = "Punct" /\ Head(ts).v = <<c>>

IsName(ts) == ts # <<>> /\ Head(ts).t = "Name"

ParseFail == [ok |-> FALSE]

RECURSIVE ParseValue(_), ParseListItems(_, _), ParseObjectFields(_, _)
\* graphql's parseValueLiteral: a ValueNode and the tokens left
ParseValue(ts) ==
  IF ts = <<>> THEN ParseFail
  ELSE LET h == Head(ts)
       IN IF IsPunct(ts, "$")
          THEN IF IsName(Tail(ts))
               THEN [ok |-> TRUE,
                     node |-> [kind |-> "Variable", value |-> Head(Tail(ts)).v],
                     rest |-> Tail(Tail(ts))]
               ELSE ParseFail
          ELSE IF h.t = "String"
          THEN [ok |-> TRUE, node |-> [kind |-> "StringValue", value |-> h.v],
                rest |-> Tail(ts)]
          ELSE IF h.t = "Int"
          THEN [ok |-> TRUE, node |-> [kind |-> "IntValue", value |-> h.v],
                rest |-> Tail(ts)]
          ELSE IF h.t = "Name"
          THEN [ok |-> TRUE,
                node |-> [kind |-> IF h.v \in {<<"true">>, <<"false">>}
                                     THEN "BooleanValue"
                                   ELSE IF h.v = <<"null">> THEN "NullValue"
                                   ELSE "EnumValue",
                          value |-> h.v],
                rest |-> Tail(ts)]
          ELSE IF IsPunct(ts, "[") THEN ParseListItems(Tail(ts), <<>>)
          ELSE IF IsPunct(ts, "{") THEN ParseObjectFields(Tail(ts), <<>>)
          ELSE ParseFail

ParseListItems(ts, acc) ==
  IF ts = <<>> THEN ParseFail
  ELSE IF IsPunct(ts, "]")
  THEN [ok |-> TRUE, node |-> [kind |-> "ListValue", values |-> acc],
        rest |-> Tail(ts)]
  ELSE LET r == ParseValue(ts)
       IN IF ~r.ok THEN ParseFail
          ELSE ParseListItems(r.rest, Append(acc, r.node))

ParseObjectFields(ts, acc) ==
  IF ts = <<>> THEN ParseFail
  ELSE IF IsPunct(ts, "}")
  THEN [ok |-> TRUE, node |-> [kind |-> "ObjectValue", fields |-> acc],
        rest |-> Tail(ts)]
  ELSE IF IsName(ts) /\ IsPunct(Tail(ts), ":")
  THEN LET r == ParseValue(Tail(Tail(ts)))
       IN IF ~r.ok THEN ParseFail
          ELSE ParseObjectFields(r.rest,
                 Append(acc, [name |-> Head(ts).v, value |-> r.node]))
  ELSE ParseFail

RECURSIVE ParseArguments(_, _)
\* graphql's parseArguments after "(": one argument at least, up to ")"
ParseArguments(ts, acc) ==
  IF ts = <<>> THEN ParseFail
  ELSE IF IsPunct(ts, ")")
  THEN IF acc = <<>> THEN ParseFail
       ELSE [ok |-> TRUE, node |-> acc, rest |-> Tail(ts)]
  ELSE IF IsName(ts) /\ IsPunct(Tail(ts), ":")
  THEN LET r == ParseValue(Tail(Tail(ts)))
       IN IF ~r.ok THEN ParseFail
          ELSE ParseArguments(r.rest,
                 Append(acc, [name |-> Head(ts).v, value |-> r.node]))
  ELSE ParseFail

\* graphql's parseField for a field with a name and optional arguments
ParseField(ts) ==
  IF ~IsName(ts) THEN ParseFail
  ELSE IF IsPunct(Tail(ts), "(")
  THEN LET r == ParseArguments(Tail(Tail(ts)), <<>>)
       IN IF ~r.ok THEN ParseFail
          ELSE [ok |-> TRUE,
                node |-> [name |-> Head(ts).v, arguments |-> r.node],
                rest |-> r.rest]
  ELSE [ok |-> TRUE, node |-> [name |-> Head(ts).v, arguments |-> <<>>],
        rest |-> Tail(ts)]

RECURSIVE ParseSelections(_)
\* The selections that follow in the same "{ ... }": each must parse
ParseSelections(ts) ==
  IF ts = <<>> THEN TRUE
  ELSE LET r == ParseField(ts) IN r.ok /\ ParseSelections(r.rest)

\* parseFieldString: the first field of the document "{ fieldStr }", or null
\* (ok = FALSE) when the document does not parse
parseFieldString(fieldStr) ==
  LET ts == Lex(fieldStr)
      r == ParseField(ts)
  IN IF \E i \in DOMAIN ts : ts[i].t = "Error" THEN ParseFail
     ELSE IF ~r.ok THEN ParseFail
     ELSE IF ~ParseSelections(r.rest) THEN ParseFail
     ELSE [ok |-> TRUE, node |-> r.node]

ScalarKinds ==
  {"IntValue", "FloatValue", "StringValue", "BooleanValue", "EnumValue"}

\* fields.find((f) => f.name.value === name): its index, 0 when there is none
FindByName(fields, name) ==
  IF \E i \in DOMAIN fields : fields[i].name = name
  THEN CHOOSE i \in DOMAIN fields :
         /\ fields[i].name = name
         /\ \A j \in 1..(i - 1) : fields[j].name # name
  ELSE 0

RECURSIVE matchValueNode(_, _), MatchEvery(_, _), MatchFields(_, _)
\* matchValueNode: $ANY matches any value, another variable throws
matchValueNode(pattern, request) ==
  IF pattern.kind = "Variable"
  THEN IF pattern.value # <<"ANY">> THEN THROW ELSE T
  ELSE IF pattern.kind # request.kind THEN F
  ELSE IF pattern.kind = "NullValue" THEN T
  ELSE IF pattern.kind \in ScalarKinds
  THEN IF pattern.value = request.value THEN T ELSE F
  ELSE IF pattern.kind = "ListValue"
  THEN IF Len(pattern.values) # Len(request.values) THEN F
       ELSE MatchEvery(pattern.values, request.values)
  ELSE IF pattern.kind = "ObjectValue"
  THEN IF Len(pattern.fields) # Len(request.fields) THEN F
       ELSE MatchFields(pattern.fields, request.fields)
  ELSE F

\* pattern.values.every((pv, i) => matchValueNode(pv, rList.values[i]))
MatchEvery(ps, rs) ==
  IF ps = <<>> THEN T
  ELSE LET m == matchValueNode(Head(ps), Head(rs))
       IN IF m = T THEN MatchEvery(Tail(ps), Tail(rs)) ELSE m

\* The loop over the pattern's fields (or arguments): each is looked up by
\* name among the request's and matched
MatchFields(pfs, rfs) ==
  IF pfs = <<>> THEN T
  ELSE LET i == FindByName(rfs, Head(pfs).name)
       IN IF i = 0 THEN F
          ELSE LET m == matchValueNode(Head(pfs).value, rfs[i].value)
               IN IF m = T THEN MatchFields(Tail(pfs), rfs) ELSE m

\* A field matcher that does not compare the numbers of arguments
MatchesWithoutCount(patternFieldStr, requestFieldStr) ==
  IF ~parseFieldString(patternFieldStr).ok \/ ~parseFieldString(requestFieldStr).ok
  THEN F
  ELSE IF parseFieldString(patternFieldStr).node.name
            # parseFieldString(requestFieldStr).node.name THEN F
  ELSE MatchFields(parseFieldString(patternFieldStr).node.arguments,
                   parseFieldString(requestFieldStr).node.arguments)

\* matchesGraphQLFieldPattern
matchesGraphQLFieldPattern(patternFieldStr, requestFieldStr) ==
  LET patternNode == parseFieldString(patternFieldStr)
      requestNode == parseFieldString(requestFieldStr)
  IN IF ~patternNode.ok \/ ~requestNode.ok THEN F
     ELSE IF patternNode.node.name # requestNode.node.name THEN F
     ELSE IF Len(patternNode.node.arguments) # Len(requestNode.node.arguments)
     THEN F
     ELSE MatchFields(patternNode.node.arguments, requestNode.node.arguments)

\* ------------------------------------------------------- pattern engine

\* The symbols between "[" and the first "]" of a glob that starts with "["
GlobClass(pattern) == SubSeq(pattern, 2, IndexOf(pattern, "]") - 1)

\* What follows the "]" that closes the class a glob starts with
AfterClass(pattern) == After(pattern, IndexOf(pattern, "]"))

RECURSIVE GlobMatchPrefix(_, _)
\* A glob that is satisfied once the pattern is used up
GlobMatchPrefix(pattern, text) ==
  IF pattern = <<>> THEN TRUE
  ELSE IF Head(pattern) = "*"
  THEN \/ GlobMatchPrefix(Tail(pattern), text)
       \/ text # <<>> /\ Head(text) # "/" /\ GlobMatchPrefix(pattern, Tail(text))
  ELSE text # <<>> /\ Head(text) = Head(pattern)
       /\ GlobMatchPrefix(Tail(pattern), Tail(text))

RECURSIVE GlobMatch(_, _)
\* new Bun.Glob(pattern).match(text): "*" stands for any run of symbols
\* other than "/", "?" for one symbol other than "/", "[" ... "]" for one
\* symbol of the class, every other symbol for itself (the braces, the
\* negation and the escape of Bun.Glob occur in no pattern of the model)
GlobMatch(pattern, text) ==
  IF pattern = <<>> THEN text = <<>>
  ELSE IF Head(pattern) = "*"
  THEN \/ GlobMatch(Tail(pattern), text)
       \/ text # <<>> /\ Head(text) # "/" /\ GlobMatch(pattern, Tail(text))
  ELSE IF Head(pattern) = "?"
  THEN text # <<>> /\ Head(text) # "/" /\ GlobMatch(Tail(pattern), Tail(text))
  ELSE IF Head(pattern) = "[" /\ IndexOf(pattern, "]") > 2
  THEN text # <<>> /\ Head(text) \in Range(GlobClass(pattern))
       /\ GlobMatch(AfterClass(pattern), Tail(text))
  ELSE text # <<>> /\ Head(text) = Head(pattern)
       /\ GlobMatch(Tail(pattern), Tail(text))

\* A matcher that tests for "METHOD *" before it compares the methods
MatchesBeforeMethod(pattern, requestKey) ==
  IF pattern = requestKey THEN T
  ELSE IF IndexOf(pattern, SP) = 0 \/ IndexOf(requestKey, SP) = 0 THEN F
  ELSE IF After(pattern, IndexOf(pattern, SP)) = <<"*">> THEN T
  ELSE F

\* matchesPattern(pattern, requestKey)
matchesPattern(pattern, requestKey) ==
  LET patternSpaceIdx == IndexOf(pattern, SP)
      requestSpaceIdx == IndexOf(requestKey, SP)
      patternMethod == Before(pattern, patternSpaceIdx)
      requestMethod == Before(requestKey, requestSpaceIdx)
      patternRest == After(pattern, patternSpaceIdx)
      requestRest == After(requestKey, requestSpaceIdx)
      patternOpIdx == IndexOf(patternRest, SP)
      requestOpIdx == IndexOf(requestRest, SP)
  IN IF pattern = requestKey THEN T
     ELSE IF patternSpaceIdx = 0 \/ requestSpaceIdx = 0 THEN F
     ELSE IF patternMethod # requestMethod THEN F
     ELSE IF patternRest = <<"*">> THEN T
     ELSE IF patternMethod = <<"GRAPHQL">>
     THEN IF patternRest = <<"query", SP, "*">>
          THEN IF StartsWith(requestRest, <<"query", SP>>) THEN T ELSE F
          ELSE IF patternRest = <<"mutation", SP, "*">>
          THEN IF StartsWith(requestRest, <<"mutation", SP>>) THEN T ELSE F
          ELSE IF patternOpIdx = 0 \/ requestOpIdx = 0 THEN F
          ELSE IF Before(patternRest, patternOpIdx)
                    # Before(requestRest, requestOpIdx) THEN F
          ELSE matchesGraphQLFieldPattern(After(patternRest, patternOpIdx),
                                          After(requestRest, requestOpIdx))
     ELSE IF GlobMatch(patternRest, requestRest) THEN T ELSE F

\* One turn of the loop of findMatchingGrant and findMatchingRejection: m is
\* matchesPattern(pattern, requestKey), rest the result for the later patterns
FindStep(pattern, m, rest) ==
  IF m = THROW THEN [r |-> THROW, pattern |-> pattern]
  ELSE IF m = T THEN [r |-> "found", pattern |-> pattern]
  ELSE rest

RECURSIVE FindMatching(_, _)
\* The first pattern of the list that matches the key: r is "found" with the
\* pattern, "none", or THROW when matchesPattern throws before a match
FindMatching(list, requestKey) ==
  IF list = <<>> THEN [r |-> "none", pattern |-> <<>>]
  ELSE FindStep(Head(list), matchesPattern(Head(list), requestKey),
                FindMatching(Tail(list), requestKey))

\* findMatchingGrant(secretC, requestKey)
findMatchingGrant(secretC, requestKey) == FindMatching(secretC.grants, requestKey)

\* findMatchingRejection(secretC, requestKey)
findMatchingRejection(secretC, requestKey) ==
  FindMatching(secretC.rejections, requestKey)

\* A request key that keeps the query string
GetRequestKeyWithQuery(method, path) == <<method, SP>> \o path

\* getRequestKey(method, path)
getRequestKey(method, path) == <<method, SP>> \o PathWithoutQuery(path)

\* --------------------------------------------------- GraphQL normalizer
\* JSON values are records: [t |-> "null"], [t |-> "string", v |-> text],
\* [t |-> "number", v |-> numeral], [t |-> "boolean", v |-> text],
\* [t |-> "array", items |-> values], [t |-> "object", entries |-> <<[k, v]>>],
\* and [t |-> "undefined"] for a missing property.

JNull == [t |-> "null"]
JUndefined == [t |-> "undefined"]
JString(v) == [t |-> "string", v |-> v]
JNumber(v) == [t |-> "number", v |-> v]
JBoolean(v) == [t |-> "boolean", v |-> v]
JArray(items) == [t |-> "array", items |-> items]
JObject(entries) == [t |-> "object", entries |-> entries]

\* String(parseInt(text, 10)): the numeral of the integer the literal denotes
ParseInt(text) == IF text = <<"-0">> THEN <<"0">> ELSE text

\* obj[k] = v on an object under construction: a key set twice keeps its
\* first position and its last value
ObjSet(entries, k, v) ==
  LET i == FindByName([j \in DOMAIN entries |-> [name |-> entries[j].k]], k)
  IN IF i = 0 THEN Append(entries, [k |-> k, v |-> v])
     ELSE [entries EXCEPT ![i] = [k |-> k, v |-> v]]

\* variables[varName], the request's "variables" being an object of entries
VarLookup(variables, name) ==
  LET i == FindByName([j \in DOMAIN variables |-> [name |-> variables[j].k]],
                      name)
  IN IF i = 0 THEN JUndefined ELSE variables[i].v

RECURSIVE valueNodeToJSON(_, _), ValuesToJSON(_, _), FieldsToJSON(_, _, _)
\* valueNodeToJSON(value, variables)
valueNodeToJSON(value, variables) ==
  IF value.kind = "Variable"
  THEN LET v == VarLookup(variables, value.value)
       IN IF v.t # "undefined" THEN v ELSE JNull
  ELSE IF value.kind = "IntValue" THEN JNumber(ParseInt(value.value))
  ELSE IF value.kind = "StringValue" THEN JString(value.value)
  ELSE IF value.kind = "BooleanValue" THEN JBoolean(value.value)
  ELSE IF value.kind = "NullValue" THEN JNull
  ELSE IF value.kind = "EnumValue" THEN JString(value.value)
  ELSE IF value.kind = "ListValue"
  THEN JArray(ValuesToJSON(value.values, variables))
  ELSE IF value.kind = "ObjectValue"
  THEN JObject(FieldsToJSON(value.fields, variables, <<>>))
  ELSE JNull

ValuesToJSON(values, variables) ==
  IF values = <<>> THEN <<>>
  ELSE <<valueNodeToJSON(Head(values), variables)>>
       \o ValuesToJSON(Tail(values), variables)

FieldsToJSON(fields, variables, obj) ==
  IF fields = <<>> THEN obj
  ELSE FieldsToJSON(Tail(fields), variables,
         ObjSet(obj, Head(fields).name,
                valueNodeToJSON(Head(fields).value, variables)))

RECURSIVE serializeJsValue(_), SerializeItems(_), SerializeEntries(_)
\* serializeJsValue(value): the GraphQL-like text of a JSON value
serializeJsValue(value) ==
  IF value.t \in {"null", "undefined"} THEN <<"null">>
  ELSE IF value.t = "string" THEN <<"\"">> \o value.v \o <<"\"">>
  ELSE IF value.t = "number" THEN value.v
  ELSE IF value.t = "boolean" THEN value.v
  ELSE IF value.t = "array"
  THEN <<"[">> \o SerializeItems(value.items) \o <<"]">>
  ELSE <<"{">> \o SerializeEntries(value.entries) \o <<"}">>

\* items.map(serializeJsValue).join(", ")
SerializeItems(items) ==
  IF items = <<>> THEN <<>>
  ELSE IF Len(items) = 1 THEN serializeJsValue(Head(items))
  ELSE serializeJsValue(Head(items)) \o <<",", SP>> \o SerializeItems(Tail(items))

\* Object.entries(value).map(([k, v]) => `${k}: ${...}`).join(", ")
SerializeEntries(entries) ==
  IF entries = <<>> THEN <<>>
  ELSE LET one == Head(entries).k \o <<":", SP>> \o serializeJsValue(Head(entries).v)
       IN IF Len(entries) = 1 THEN one
          ELSE one \o <<",", SP>> \o SerializeEntries(Tail(entries))

\* The field string with parentheses whatever the number of arguments
FormatWithParentheses(field) ==
  field.name \o <<"(">>
  \o SerializeEntries([i \in DOMAIN field.args |->
                         [k |-> field.args[i].name, v |-> field.args[i].value]])
  \o <<")">>

\* formatGraphQLField(field): name, or name(arg: value, ...)
formatGraphQLField(field) ==
  IF field.args = <<>> THEN field.name
  ELSE field.name \o <<"(">>
       \o SerializeEntries([i \in DOMAIN field.args |->
                              [k |-> field.args[i].name, v |-> field.args[i].value]])
       \o <<")">>

RECURSIVE JSONStringify(_), StringifyItems(_), StringifyEntries(_)
\* JSON.stringify(value) without indentation
JSONStringify(value) ==
  IF value.t \in {"null", "undefined"} THEN <<"null">>
  ELSE IF value.t = "string" THEN <<"\"">> \o value.v \o <<"\"">>
  ELSE IF value.t \in {"number", "boolean"} THEN value.v
  ELSE IF value.t = "array"
  THEN <<"[">> \o StringifyItems(value.items) \o <<"]">>
  ELSE <<"{">> \o StringifyEntries(value.entries) \o <<"}">>

StringifyItems(items) ==
  IF items = <<>> THEN <<>>
  ELSE IF Len(items) = 1 THEN JSONStringify(Head(items))
  ELSE JSONStringify(Head(items)) \o <<",">> \o StringifyItems(Tail(items))

StringifyEntries(entries) ==
  IF entries = <<>> THEN <<>>
  ELSE LET one == <<"\"">> \o Head(entries).k \o <<"\"", ":">>
                  \o JSONStringify(Head(entries).v)
       IN IF Len(entries) = 1 THEN one
          ELSE one \o <<",">> \o StringifyEntries(Tail(entries))

\* JSON.stringify(field) of a GraphQLField {name, args: [{name, value}]}
FieldKey(field) ==
  JSONStringify(JObject(<<
    [k |-> <<"name">>, v |-> JString(field.name)],
    [k |-> <<"args">>,
     v |-> JArray([i \in DOMAIN field.args |->
                     JObject(<<[k |-> <<"name">>, v |-> JString(field.args[i].name)],
                               [k |-> <<"value">>, v |-> field.args[i].value]>>)])]>>))

RECURSIVE DedupFrom(_, _, _)
DedupFrom(fields, seen, result) ==
  IF fields = <<>> THEN result
  ELSE LET key == FieldKey(Head(fields))
       IN IF key \in seen THEN DedupFrom(Tail(fields), seen, result)
          ELSE DedupFrom(Tail(fields), seen \cup {key}, Append(result, Head(fields)))

\* deduplicateFields(fields)
deduplicateFields(fields) == DedupFrom(fields, {}, <<>>)

\* A null result of the normalizer
ParsedNull == [ok |-> FALSE, thrown |-> FALSE, queries |-> <<>>, mutations |-> <<>>]

\* An Error thrown inside the normalizer
ParsedThrow == [ok |-> FALSE, thrown |-> TRUE, queries |-> <<>>, mutations |-> <<>>]

Parsed(queries, mutations) ==
  [ok |-> TRUE, thrown |-> FALSE, queries |-> queries, mutations |-> mutations]

\* fragments.get(name): the index of the last definition of that name (a
\* later fragments.set replaces an earlier one), 0 when there is none
FragmentIndex(fragments, name) ==
  IF \E i \in DOMAIN fragments : fragments[i].name = name
  THEN CHOOSE i \in DOMAIN fragments :
         /\ fragments[i].name = name
         /\ \A j \in (i + 1)..Len(fragments) : fragments[j].name # name
  ELSE 0

\* A null result of inlineFragments, and the RangeError of a recursion that
\* runs out of stack
InlinedNull == [ok |-> FALSE, thrown |-> FALSE, selections |-> <<>>]
InlinedThrow == [ok |-> FALSE, thrown |-> TRUE, selections |-> <<>>]

RECURSIVE InlineOpen(_, _, _)
\* inlineFragments below the spreads of the fragments in open: the code
\* keeps no record of them, so the spread of a fragment that is open starts
\* the same calls again and the recursion ends only when the stack is full
InlineOpen(selections, fragments, open) ==
  IF selections = <<>> THEN [ok |-> TRUE, thrown |-> FALSE, selections |-> <<>>]
  ELSE LET selection == Head(selections)
           rest == InlineOpen(Tail(selections), fragments, open)
           inner ==
             IF selection.kind = "Field"
             THEN IF ~selection.hasSelectionSet
                  THEN [ok |-> TRUE, thrown |-> FALSE, selections |-> <<selection>>]
                  ELSE LET n == InlineOpen(selection.selectionSet, fragments, open)
                       IN IF ~n.ok THEN n
                          ELSE [ok |-> TRUE, thrown |-> FALSE,
                                selections |->
                                  <<[selection EXCEPT !.selectionSet = n.selections]>>]
             ELSE IF selection.kind = "FragmentSpread"
             THEN LET i == FragmentIndex(fragments, selection.name)
                  IN IF i = 0 THEN InlinedNull
                     ELSE IF i \in open THEN InlinedThrow
                     ELSE InlineOpen(fragments[i].selectionSet, fragments,
                                     open \cup {i})
             ELSE IF selection.kind = "InlineFragment"
             THEN InlineOpen(selection.selectionSet, fragments, open)
             ELSE InlinedNull
       IN IF ~inner.ok THEN inner
          ELSE IF ~rest.ok THEN rest
          ELSE [ok |-> TRUE, thrown |-> FALSE,
                selections |-> inner.selections \o rest.selections]

\* inlineFragments(selectionSet, fragments): the selections with every
\* fragment spread and inline fragment expanded, or null (ok = FALSE), or
\* the RangeError (thrown = TRUE)
inlineFragments(selections, fragments) == InlineOpen(selections, fragments, {})

\* extractTopLevelFields(selectionSet, variables): after inlining every
\* selection is a field, so the result is never null
extractTopLevelFields(selections, variables) ==
  [i \in DOMAIN selections |->
     [name |-> selections[i].name,
      args |-> [j \in DOMAIN selections[i].arguments |->
                  [name |-> selections[i].arguments[j].name,
                   value |-> valueNodeToJSON(selections[i].arguments[j].value,
                                             variables)]]]]

\* ------------------------------------------------------ request corpus
\* graphql's parse and JSON.parse are library calls: they are tables from
\* the texts that occur in the requests below to the values they return.

Field(name, arguments) ==
  [kind |-> "Field", name |-> <<name>>, arguments |-> arguments,
   hasSelectionSet |-> FALSE, selectionSet |-> <<>>]

Arg(name, value) == [name |-> <<name>>, value |-> value]

Spread(name) == [kind |-> "FragmentSpread", name |-> <<name>>]

Operation(operation, name, selections) ==
  [kind |-> "OperationDefinition", operation |-> operation, name |-> name,
   selectionSet |-> selections]

Fragment(name, selections) ==
  [kind |-> "FragmentDefinition", name |-> <<name>>, selectionSet |-> selections]

Document(definitions) == [ok |-> TRUE, definitions |-> definitions]

SyntaxError == [ok |-> FALSE, definitions |-> <<>>]

StrX == [kind |-> "StringValue", value |-> <<"x">>]

\* parse(query) of the graphql library
ParseDocument(query) ==
  CASE query = <<"query{user}">> ->
         Document(<<Operation("query", NULL, <<Field("user", <<>>)>>)>>)
    [] query = <<"query{search(q:\"x\")}">> ->
         Document(<<Operation("query", NULL,
                      <<Field("search", <<Arg("q", StrX)>>)>>)>>)
    [] query = <<"query{node(id:-0)}">> ->
         Document(<<Operation("query", NULL,
                      <<Field("node", <<Arg("id", [kind |-> "IntValue",
                                                    value |-> <<"-0">>])>>)>>)>>)
    [] query = <<"mutation{createUser(name:\"x\")}">> ->
         Document(<<Operation("mutation", NULL,
                      <<Field("createUser", <<Arg("name", StrX)>>)>>)>>)
    [] query = <<"mutation M($n:String){createUser(name:$n)}">> ->
         Document(<<Operation("mutation", <<"M">>,
                      <<Field("createUser",
                              <<Arg("name", [kind |-> "Variable",
                                             value |-> <<"n">>])>>)>>)>>)
    [] query = <<"mutation{createUser(name:\"x\") deleteUser(id:1)}">> ->
         Document(<<Operation("mutation", NULL,
                      <<Field("createUser", <<Arg("name", StrX)>>),
                        Field("deleteUser",
                              <<Arg("id", [kind |-> "IntValue",
                                           value |-> <<"1">>])>>)>>)>>)
    [] query = <<"query{...F user} fragment F on Query{user}">> ->
         Document(<<Operation("query", NULL, <<Spread("F"), Field("user", <<>>)>>),
                    Fragment("F", <<Field("user", <<>>)>>)>>)
    [] query = <<"query{...A} fragment A on Query{...B} fragment B on Query{...A}">> ->
         Document(<<Operation("query", NULL, <<Spread("A")>>),
                    Fragment("A", <<Spread("B")>>),
                    Fragment("B", <<Spread("A")>>)>>)
    [] query = <<"query{user} fragment A on Query{...A}">> ->
         Document(<<Operation("query", NULL, <<Field("user", <<>>)>>),
                    Fragment("A", <<Spread("A")>>)>>)
    [] query = <<"query{...G}">> ->
         Document(<<Operation("query", NULL, <<Spread("G")>>)>>)
    [] query = <<"fragment F on Query{user}">> ->
         Document(<<Fragment("F", <<Field("user", <<>>)>>)>>)
    [] query = <<"query A{user} mutation B{createUser(name:\"x\")}">> ->
         Document(<<Operation("query", <<"A">>, <<Field("user", <<>>)>>),
                    Operation("mutation", <<"B">>,
                      <<Field("createUser", <<Arg("name", StrX)>>)>>)>>)
    [] query = <<"type T{a:Int}">> ->
         Document(<<[kind |-> "ObjectTypeDefinition"]>>)
    [] OTHER -> SyntaxError

GqlBody(query) == JObject(<<[k |-> <<"query">>, v |-> JString(query)]>>)

\* JSON.parse(text): ok = FALSE stands for the SyntaxError it throws
JSONParse(text) ==
  CASE text = <<"{query:createUser}">> ->
         [ok |-> TRUE, value |-> GqlBody(<<"mutation{createUser(name:\"x\")}">>)]
    [] text = <<"{query:createUser($n),variables:{n:x}}">> ->
         [ok |-> TRUE,
          value |-> JObject(<<
            [k |-> <<"query">>,
             v |-> JString(<<"mutation M($n:String){createUser(name:$n)}">>)],
            [k |-> <<"variables">>,
             v |-> JObject(<<[k |-> <<"n">>, v |-> JString(<<"x">>)]>>)]>>)]
    [] text = <<"{query:two}">> ->
         [ok |-> TRUE,
          value |-> GqlBody(<<"mutation{createUser(name:\"x\") deleteUser(id:1)}">>)]
    [] text = <<"[{query:user},{query:createUser},{query:fragUser}]">> ->
         [ok |-> TRUE,
          value |-> JArray(<<
            GqlBody(<<"query{user}">>),
            GqlBody(<<"mutation{createUser(name:\"x\")}">>),
            GqlBody(<<"query{...F user} fragment F on Query{user}">>)>>)]
    [] text = <<"{query:user}">> ->
         [ok |-> TRUE, value |-> GqlBody(<<"query{user}">>)]
    [] text = <<"{query:search}">> ->
         [ok |-> TRUE, value |-> GqlBody(<<"query{search(q:\"x\")}">>)]
    [] text = <<"[{query:node},{query:createUser}]">> ->
         [ok |-> TRUE,
          value |-> JArray(<<GqlBody(<<"query{node(id:-0)}">>),
                             GqlBody(<<"mutation{createUser(name:\"x\")}">>)>>)]
    [] text = <<"{query:AB,operationName:B}">> ->
         [ok |-> TRUE,
          value |-> JObject(<<
            [k |-> <<"query">>,
             v |-> JString(<<"query A{user} mutation B{createUser(name:\"x\")}">>)],
            [k |-> <<"operationName">>, v |-> JString(<<"B">>)]>>)]
    [] text = <<"{query:AB,operationName:C}">> ->
         [ok |-> TRUE,
          value |-> JObject(<<
            [k |-> <<"query">>,
             v |-> JString(<<"query A{user} mutation B{createUser(name:\"x\")}">>)],
            [k |-> <<"operationName">>, v |-> JString(<<"C">>)]>>)]
    [] text = <<"{}">> -> [ok |-> TRUE, value |-> JObject(<<>>)]
    [] text = <<"{query:1}">> ->
         [ok |-> TRUE,
          value |-> JObject(<<[k |-> <<"query">>, v |-> JNumber(<<"1">>)]>>)]
    [] text = <<"{query:bad}">> ->
         [ok |-> TRUE, value |-> GqlBody(<<"query{">>)]
    [] text = <<"{query:unknownFragment}">> ->
         [ok |-> TRUE, value |-> GqlBody(<<"query{...G}">>)]
    [] text = <<"{query:fragmentOnly}">> ->
         [ok |-> TRUE, value |-> GqlBody(<<"fragment F on Query{user}">>)]
    [] text = <<"{query:typeDefinition}">> ->
         [ok |-> TRUE, value |-> GqlBody(<<"type T{a:Int}">>)]
    [] text = <<"null">> -> [ok |-> TRUE, value |-> JNull]
    [] text = <<"{n:x}">> ->
         [ok |-> TRUE, value |-> JObject(<<[k |-> <<"n">>, v |-> JString(<<"x">>)]>>)]
    [] OTHER -> [ok |-> FALSE, value |-> JNull]

\* obj[k] of a parsed JSON value that is an object
Prop(obj, k) ==
  IF obj.t # "object" THEN JUndefined
  ELSE LET i == FindByName([j \in DOMAIN obj.entries |->
                              [name |-> obj.entries[j].k]], k)
       IN IF i = 0 THEN JUndefined ELSE obj.entries[i].v

\* req.variables ?? {} as the entries of the variables object
VariablesOf(v) == IF v.t = "object" THEN v.entries ELSE <<>>

RECURSIVE SelectOperations(_, _)
\* operations.filter((op) => op.name?.value === operationName)
SelectOperations(operations, operationName) ==
  IF operations = <<>> THEN <<>>
  ELSE IF Head(operations).name = operationName
       THEN <<Head(operations)>> \o SelectOperations(Tail(operations), operationName)
       ELSE SelectOperations(Tail(operations), operationName)

RECURSIVE FilterKind(_, _)
FilterKind(definitions, kind) ==
  IF definitions = <<>> THEN <<>>
  ELSE IF Head(definitions).kind = kind
       THEN <<Head(definitions)>> \o FilterKind(Tail(definitions), kind)
       ELSE FilterKind(Tail(definitions), kind)

RECURSIVE ExtractOperations(_, _, _, _, _)
\* The loop of parseGraphQLDocument over the selected operations
ExtractOperations(ops, fragments, variables, queries, mutations) ==
  IF ops = <<>> THEN Parsed(queries, mutations)
  ELSE LET inlined == inlineFragments(Head(ops).selectionSet, fragments)
           fields == extractTopLevelFields(inlined.selections, variables)
       IN IF inlined.thrown THEN ParsedThrow
          ELSE IF ~inlined.ok THEN ParsedNull
          ELSE IF Head(ops).operation = "mutation"
          THEN ExtractOperations(Tail(ops), fragments, variables,
                                 queries, mutations \o fields)
          ELSE ExtractOperations(Tail(ops), fragments, variables,
                                 queries \o fields, mutations)

\* parseGraphQLDocument(query, operationName, variables); operationName is
\* a text or NULL
parseGraphQLDocument(query, operationName, variables) ==
  LET document == ParseDocument(query)
      fragments == FilterKind(document.definitions, "FragmentDefinition")
      operations == FilterKind(document.definitions, "OperationDefinition")
      selectedOperations ==
        IF operationName # NULL THEN SelectOperations(operations, operationName)
        ELSE operations
  IN IF ~document.ok THEN ParsedNull
     ELSE IF \E i \in DOMAIN document.definitions :
               document.definitions[i].kind
                 \notin {"FragmentDefinition", "OperationDefinition"}
     THEN ParsedNull
     ELSE IF operationName # NULL /\ selectedOperations = <<>> THEN ParsedNull
     ELSE ExtractOperations(selectedOperations, fragments, variables, <<>>, <<>>)

RECURSIVE ParseRequests(_, _, _)
\* The loop of parseGraphQLRequest over the requests of the body
ParseRequests(requests, allQueries, allMutations) ==
  IF requests = <<>> THEN Parsed(allQueries, allMutations)
  ELSE LET req == Head(requests)
           query == Prop(req, <<"query">>)
           operationName == Prop(req, <<"operationName">>)
           variables == Prop(req, <<"variables">>)
           result == parseGraphQLDocument(
                       query.v,
                       IF operationName.t \in {"undefined", "null"} THEN NULL
                       ELSE operationName.v,
                       VariablesOf(variables))
       IN IF req.t = "null" THEN ParsedThrow
          ELSE IF query.t # "string" \/ query.v = <<>> THEN ParsedNull
          ELSE IF ~result.ok THEN result
          ELSE ParseRequests(Tail(requests), allQueries \o result.queries,
                             allMutations \o result.mutations)

\* parseGraphQLRequest(body)
parseGraphQLRequest(body) ==
  LET parsed == JSONParse(body)
      requests == IF parsed.value.t = "array" THEN parsed.value.items
                  ELSE <<parsed.value>>
      all == ParseRequests(requests, <<>>, <<>>)
  IN IF ~parsed.ok THEN ParsedNull
     ELSE IF ~all.ok THEN all
     ELSE IF all.queries = <<>> /\ all.mutations = <<>> THEN ParsedNull
     ELSE Parsed(deduplicateFields(all.queries), deduplicateFields(all.mutations))

RECURSIVE ParamPairs(_)
ParamPairs(pieces) ==
  IF pieces = <<>> THEN <<>>
  ELSE LET piece == Head(pieces)
           i == IndexOf(piece, "=")
       IN IF piece = <<>> THEN ParamPairs(Tail(pieces))
          ELSE <<IF i = 0 THEN [k |-> piece, v |-> <<>>]
                 ELSE [k |-> Before(piece, i), v |-> After(piece, i)]>>
               \o ParamPairs(Tail(pieces))

\* url.searchParams: the key/value pairs of url.search ("" or "?k=v&...")
SearchParams(search) ==
  IF search = <<>> THEN <<>> ELSE ParamPairs(Split(Tail(search), "&"))

\* searchParams.get(name): the first value of that name, or NULL
ParamGet(params, name) ==
  LET i == FindByName([j \in DOMAIN params |-> [name |-> params[j].k]], name)
  IN IF i = 0 THEN NULL ELSE params[i].v

\* parseGraphQLFromSearchParams(searchParams)
parseGraphQLFromSearchParams(searchParams) ==
  LET query == ParamGet(searchParams, <<"query">>)
      operationName == ParamGet(searchParams, <<"operationName">>)
      variablesParam == ParamGet(searchParams, <<"variables">>)
      hasVariables == variablesParam # NULL /\ variablesParam # <<>>
      variables == JSONParse(variablesParam)
  IN IF query = NULL \/ query = <<>> THEN ParsedNull
     ELSE IF hasVariables /\ ~variables.ok THEN ParsedNull
     ELSE parseGraphQLDocument(
            query, operationName,
            IF hasVariables THEN VariablesOf(variables.value) ELSE <<>>)

RECURSIVE KeysOf(_, _)
KeysOf(opType, fields) ==
  IF fields = <<>> THEN <<>>
  ELSE <<<<"GRAPHQL", SP, opType, SP>> \o formatGraphQLField(Head(fields))>>
       \o KeysOf(opType, Tail(fields))

\* getGraphQLRequestKeys(parsed)
getGraphQLRequestKeys(parsed) ==
  KeysOf("query", parsed.queries) \o KeysOf("mutation", parsed.mutations)

\* ---------------------------------------------------- suggestion engine

\* method.toUpperCase()
ToUpperCase(method) ==
  CASE method = "get" -> "GET"
    [] method = "post" -> "POST"
    [] OTHER -> method

Segment(value, isParameter) == [value |-> value, isParameter |-> isParameter]

\* specCache: the OpenAPI paths loaded at start-up, per host
specCache(host) ==
  IF host = <<"h">>
  THEN <<[segments |-> <<Segment(<<"r">>, FALSE), Segment(<<"{id}">>, TRUE)>>,
          methods |-> <<"GET", "POST">>],
         [segments |-> <<Segment(<<"{org}">>, TRUE), Segment(<<"b">>, FALSE),
                         Segment(<<"{id}">>, TRUE)>>,
          methods |-> <<"POST">>]>>
  ELSE <<>>

NoTemplate == [found |-> FALSE, segments |-> <<>>, methods |-> <<>>]

\* The segment-by-segment comparison of matchPathToTemplate
TemplateMatches(apiPath, actualSegments) ==
  /\ Len(apiPath.segments) = Len(actualSegments)
  /\ \A i \in DOMAIN apiPath.segments :
       apiPath.segments[i].isParameter
         \/ apiPath.segments[i].value = actualSegments[i]

\* matchPathToTemplate(host, method, path): the first path of the host's
\* spec with that method whose segments match, or null (found = FALSE)
matchPathToTemplate(host, method, path) ==
  LET paths == specCache(host)
      actualSegments == NonEmpty(Split(PathWithoutQuery(path), "/"))
      upperMethod == ToUpperCase(method)
      hits == {i \in DOMAIN paths :
                 /\ ListIncludes(paths[i].methods, upperMethod)
                 /\ TemplateMatches(paths[i], actualSegments)}
  IN IF hits = {} THEN NoTemplate
     ELSE LET i == CHOOSE i \in hits : \A j \in hits : i <= j
          IN [found |-> TRUE, segments |-> paths[i].segments,
              methods |-> paths[i].methods]

Option(pattern) == [pattern |-> pattern, description |-> pattern]

RECURSIVE ParamPositions(_, _)
\* The indices of the template's parameter segments, in index order
ParamPositions(segments, i) ==
  IF i > Len(segments) THEN <<>>
  ELSE IF segments[i].isParameter
       THEN <<i>> \o ParamPositions(segments, i + 1)
       ELSE ParamPositions(segments, i + 1)

\* patternSegments with patternSegments[pos] = "*" for the positions
\* paramPositions.slice(i); an assignment past the end extends the array
\* (its holes join as empty texts)
Wildcarded(actualSegments, positions) ==
  LET last == IF positions = <<>> THEN 0 ELSE positions[Len(positions)]
      n == IF last > Len(actualSegments) THEN last ELSE Len(actualSegments)
  IN [k \in 1..n |->
        IF \E j \in DOMAIN positions : positions[j] = k THEN <<"*">>
        ELSE IF k <= Len(actualSegments) THEN actualSegments[k]
        ELSE <<>>]

RECURSIVE WildcardOptionsUnskipped(_, _, _, _, _)
\* The loop without its test of usedPatterns
WildcardOptionsUnskipped(method, actualSegments, paramPositions, i, used) ==
  IF i < 1 THEN <<>>
  ELSE LET positionsToWildcard == SubSeq(paramPositions, i, Len(paramPositions))
           patternPath ==
             <<"/">> \o Join(Wildcarded(actualSegments, positionsToWildcard), "/")
       IN <<Option(<<method, SP>> \o patternPath)>>
          \o WildcardOptionsUnskipped(method, actualSegments, paramPositions,
                                      i - 1, used)

RECURSIVE WildcardOptions(_, _, _, _, _)
\* The loop "for (let i = paramPositions.length - 1; i >= 0; i--)"
WildcardOptions(method, actualSegments, paramPositions, i, used) ==
  IF i < 1 THEN <<>>
  ELSE LET positionsToWildcard == SubSeq(paramPositions, i, Len(paramPositions))
           patternPath ==
             <<"/">> \o Join(Wildcarded(actualSegments, positionsToWildcard), "/")
           pattern == <<method, SP>> \o patternPath
       IN IF pattern \in used
          THEN WildcardOptions(method, actualSegments, paramPositions, i - 1, used)
          ELSE <<Option(pattern)>>
               \o WildcardOptions(method, actualSegments, paramPositions, i - 1,
                                  used \cup {pattern})

\* generatePatternOptions(method, actualPath, template)
generatePatternOptions(method, actualPath, template) ==
  LET pathWithoutQuery == PathWithoutQuery(actualPath)
      exact == <<method, SP>> \o pathWithoutQuery
      actualSegments == NonEmpty(Split(pathWithoutQuery, "/"))
      paramPositions == ParamPositions(template.segments, 1)
  IN <<Option(exact)>>
     \o (IF template.found
         THEN WildcardOptions(method, actualSegments, paramPositions,
                              Len(paramPositions), {exact})
         ELSE <<>>)
     \o <<Option(<<method, SP, "*">>)>>

RECURSIVE AnyArgs(_, _, _)
\* The arguments from k on, "name: value" joined by ", ", the values of the
\* arguments i..n being $ANY
AnyArgs(args, k, i) ==
  IF k > Len(args) THEN <<>>
  ELSE LET one == args[k].name \o <<":", SP>>
                  \o (IF k >= i THEN <<"$", "ANY">>
                      ELSE serializeJsValue(args[k].value))
       IN IF k = Len(args) THEN one
          ELSE one \o <<",", SP>> \o AnyArgs(args, k + 1, i)

\* The field with the values of the arguments i..n replaced by $ANY
AnyFrom(field, i) == field.name \o <<"(">> \o AnyArgs(field.args, 1, i) \o <<")">>

RECURSIVE AnyOptions(_, _, _, _)
AnyOptions(opType, field, i, used) ==
  IF i < 1 THEN <<>>
  ELSE LET pattern == <<"GRAPHQL", SP, opType, SP>> \o AnyFrom(field, i)
       IN IF pattern \in used THEN AnyOptions(opType, field, i - 1, used)
          ELSE <<Option(pattern)>>
               \o AnyOptions(opType, field, i - 1, used \cup {pattern})

\* generateGraphQLFieldPatternOptions(opType, field): the exact pattern, the
\* patterns with the arguments i..n set to $ANY for i = n down to 1, and
\* "GRAPHQL opType *"
generateGraphQLFieldPatternOptions(opType, field) ==
  LET exact == <<"GRAPHQL", SP, opType, SP>> \o formatGraphQLField(field)
  IN <<Option(exact)>>
     \o AnyOptions(opType, field, Len(field.args), {exact})
     \o <<Option(<<"GRAPHQL", SP, opType, SP, "*">>)>>

RECURSIVE JoinWith(_, _)
\* ss.join(sep) for a separator of several symbols
JoinWith(ss, sep) ==
  IF ss = <<>> THEN <<>>
  ELSE IF Len(ss) = 1 THEN Head(ss)
  ELSE Head(ss) \o sep \o JoinWith(Tail(ss), sep)

\* getGraphQLDescription(parsed)
getGraphQLDescription(parsed) ==
  LET part(opType, fields) ==
        IF fields = <<>> THEN <<>>
        ELSE <<<<opType, SP, "{", SP>>
               \o JoinWith([i \in DOMAIN fields |-> formatGraphQLField(fields[i])],
                           <<",", SP>>)
               \o <<SP, "}">>>>
  IN JoinWith(part("query", parsed.queries) \o part("mutation", parsed.mutations),
              <<";", SP>>)

\* --------------------------------------------------------- policy store

SecretConfig(secret, secretEnvVarName, grants, rejections) ==
  [secret |-> secret, secretEnvVarName |-> secretEnvVarName,
   grants |-> grants, rejections |-> rejections]

\* The host the configuration file names
ConfiguredHost == <<"h">>

\* The configuration file at start-up: one host with a GraphQL endpoint and
\* three secrets. The first has no policy yet; the second and the third
\* carry hand-written patterns (one of them with a variable other than $ANY)
InitialConfig ==
  [host \in {ConfiguredHost} |->
    [secrets |-> <<
       SecretConfig(<<"f", "k">>, <<"E1">>, <<>>, <<>>),
       SecretConfig(<<"t", "k">>, <<"E2">>,
         << <<"GET", SP, "*">>,
            <<"GRAPHQL", SP, "query", SP, "user">>,
            <<"GRAPHQL", SP, "query", SP, "search", "(", "q", ":", SP, "$", "FOO", ")">> >>,
         << <<"GET", SP, "/", "r", "/", "*">>,
            <<"GRAPHQL", SP, "query", SP, "node", "(", "id", ":", SP, "$", "FOO", ")">>,
            <<"GRAPHQL", SP, "mutation", SP, "*">> >>),
       SecretConfig(<<"n", "v">>, <<"E3">>, << <<"GET", SP, "*">> >>, <<>>)>>,
     graphqlEndpoints |-> << <<"/", "g">> >>]]

\* process.env[name]: NULL when the variable is not set
ProcessEnv(name) ==
  CASE name = <<"E1">> -> <<"R", "L">>
    [] name = <<"E2">> -> <<"t", "k", "R">>
    [] OTHER -> NULL

\* The value JSON.stringify walks for one secret
SecretJSON(secretC) ==
  JObject(<<
    [k |-> <<"secret">>, v |-> JString(secretC.secret)],
    [k |-> <<"secretEnvVarName">>, v |-> JString(secretC.secretEnvVarName)],
    [k |-> <<"grants">>,
     v |-> JArray([i \in DOMAIN secretC.grants |-> JString(secretC.grants[i])])],
    [k |-> <<"rejections">>,
     v |-> JArray([i \in DOMAIN secretC.rejections |->
                     JString(secretC.rejections[i])])]>>)

HostJSON(hostConfig) ==
  JObject(<<
    [k |-> <<"secrets">>,
     v |-> JArray([i \in DOMAIN hostConfig.secrets |->
                     SecretJSON(hostConfig.secrets[i])])],
    [k |-> <<"graphqlEndpoints">>,
     v |-> JArray([i \in DOMAIN hostConfig.graphqlEndpoints |->
                     JString(hostConfig.graphqlEndpoints[i])])]>>)

\* JSON.stringify(config, null, 2) + "\n", the indentation left out
ConfigText(cfg) ==
  JSONStringify(JObject(<<[k |-> ConfiguredHost, v |-> HostJSON(cfg[ConfiguredHost])]>>))
  \o <<"\n">>

\* isGraphQLEndpoint(host, path) under the configuration cfg
isGraphQLEndpoint(cfg, host, path) ==
  /\ host \in DOMAIN cfg
  /\ ListIncludes(cfg[host].graphqlEndpoints, PathWithoutQuery(path))

\* getRealSecret(secretC)
getRealSecret(secretC) == ProcessEnv(secretC.secretEnvVarName)

\* A lookup that takes the first secret of a configured host without a look
\* at the headers
FindSecretOfHost(cfg, req) ==
  IF req.url.host \notin DOMAIN cfg THEN 0 ELSE 1

\* findSecretConfigFromHeaders(req): the index of the first secret of the
\* host that occurs in a header value, 0 for null
findSecretConfigFromHeaders(cfg, req) ==
  IF req.url.host \notin DOMAIN cfg THEN 0
  ELSE LET secrets == cfg[req.url.host].secrets
           hits == {i \in DOMAIN secrets :
                      \E k \in DOMAIN req.headers :
                        Includes(req.headers[k], secrets[i].secret)}
       IN IF hits = {} THEN 0
          ELSE CHOOSE i \in hits : \A j \in hits : i <= j

\* A substitution with replace in place of replaceAll
SubstituteFirst(headers, fakeSecret, realSecret) ==
  [k \in DOMAIN headers |-> ReplaceFirst(headers[k], fakeSecret, realSecret)]

\* substituteSecretInHeaders(headers, fakeSecret, realSecret)
substituteSecretInHeaders(headers, fakeSecret, realSecret) ==
  [k \in DOMAIN headers |-> ReplaceAll(headers[k], fakeSecret, realSecret)]

\* secretC.grants.unshift(requestKey): the pattern goes to the front
PushGrantFirst(cfg, host, idx, requestKey) ==
  [cfg EXCEPT ![host].secrets[idx].grants = <<requestKey>> \o @]

\* secretC.grants.push(requestKey) on the secret idx of the host
PushGrant(cfg, host, idx, requestKey) ==
  [cfg EXCEPT ![host].secrets[idx].grants = Append(@, requestKey)]

\* secretC.rejections.push(requestKey) on the secret idx of the host
PushRejection(cfg, host, idx, requestKey) ==
  [cfg EXCEPT ![host].secrets[idx].rejections = Append(@, requestKey)]

\* loadRequest(req): the Host header names the upstream, is then dropped;
\* the body is read for every method but GET and HEAD
loadRequest(req) ==
  LET hostHeader == IF "host" \in DOMAIN req.headers THEN req.headers["host"]
                    ELSE <<>>
  IN [url |-> [host |-> IF hostHeader # <<>> THEN hostHeader ELSE req.url.host,
               pathname |-> req.url.pathname,
               search |-> req.url.search],
      method |-> req.method,
      headers |-> [k \in DOMAIN req.headers \ {"host"} |-> req.headers[k]],
      body |-> IF req.method \notin {"GET", "HEAD"} THEN req.body ELSE NULL]

\* ------------------------------------------------------ request handler
\* A request in flight is a record: the Request received, where its handler
\* stands (pc), what the handler has computed, called and logged so far, and
\* the Response it returned (status 0: none yet).

NoRequest == [method |-> "", url |-> [host |-> <<>>, pathname |-> <<>>, search |-> <<>>],
              headers |-> <<>>, body |-> NULL]
NoCall == [called |-> FALSE, host |-> <<>>, method |-> "", path |-> <<>>,
           patternOptions |-> <<>>]
NoApproval == [type |-> "none", pattern |-> <<>>]
NoFetch == [called |-> FALSE, url |-> [host |-> <<>>, pathname |-> <<>>, search |-> <<>>],
            method |-> "", headers |-> <<>>, body |-> NULL]

Idle ==
  [pc |-> "idle", input |-> NoRequest, secret |-> 0, flow |-> "none",
   keys |-> <<>>, needsApproval |-> <<>>, lookedUp |-> FALSE,
   call |-> NoCall, approval |-> NoApproval,
   queue |-> <<>>, queueKind |-> "none", write |-> <<>>, writes |-> 0,
   saved |-> 0,
   fetch |-> NoFetch, fetches |-> 0, status |-> 0, text |-> <<>>, log |-> <<>>,
   error |-> "none", connected |-> TRUE]

\* console.log(line), console.error(line)
Log(r, line) == [r EXCEPT !.log = Append(@, line)]

\* return new Response(text, { status })
Respond(r, status, text) ==
  [r EXCEPT !.pc = "done", !.status = status, !.text = text]

\* An Error that leaves handleRequest and is answered by nobody
UncaughtHangs(r) == [r EXCEPT !.pc = "hung", !.error = "uncaught"]

\* An Error that leaves handleRequest: the server answers 500 itself
Uncaught(r) == [r EXCEPT !.pc = "done", !.status = 500, !.error = "uncaught"]

\* await fetch(req.url, { method, headers, body })
Fetch(r, req, headers) ==
  [r EXCEPT !.pc = "fetching", !.fetches = @ + 1,
            !.fetch = [called |-> TRUE, url |-> req.url, method |-> req.method,
                       headers |-> headers, body |-> req.body]]

\* forwardRequest(req), up to its await
forwardRequest(r, req) == Fetch(r, req, req.headers)

\* A forward that prints the substituted credential
ForwardLoggingSecret(r, req, secretConfig) ==
  Fetch(Log(r, <<"Forwarding with", SP>> \o getRealSecret(secretConfig)), req,
        substituteSecretInHeaders(req.headers, secretConfig.secret,
                                  getRealSecret(secretConfig)))

\* A forward without the test of the real secret
ForwardUnchecked(r, req, secretConfig) ==
  Fetch(r, req,
        substituteSecretInHeaders(req.headers, secretConfig.secret,
                                  getRealSecret(secretConfig)))

\* forwardRequestWithSecretSubstitution(req, secretConfig), up to its await
forwardRequestWithSecretSubstitution(r, req, secretConfig) ==
  LET realSecret == getRealSecret(secretConfig)
  IN IF realSecret = NULL \/ realSecret = <<>>
     THEN Respond(Log([r EXCEPT !.error = "noRealSecret"],
                      <<"No real secret configured for", SP>> \o req.url.host
                      \o <<":", SP>> \o secretConfig.secretEnvVarName),
                  500, <<"Internal Server Error - No real secret configured">>)
     ELSE Fetch(r, req,
                substituteSecretInHeaders(req.headers, secretConfig.secret,
                                          realSecret))

\* await requestApprovalFn(host, method, path, patternOptions)
RequestApproval(r, host, method, path, patternOptions) ==
  [r EXCEPT !.pc = "approval",
            !.call = [called |-> TRUE, host |-> host, method |-> method,
                      path |-> path, patternOptions |-> patternOptions]]

\* handleHttpRequest after its two lookups
HttpDecide(r, fn, req, secretConfig, path, matchingRejection, matchingGrant) ==
  IF matchingRejection.r = THROW THEN Uncaught(r)
  ELSE IF matchingRejection.r = "found"
  THEN Respond(Log(r, <<"Permanent rejection exists for pattern:", SP>>
                      \o matchingRejection.pattern),
               403, <<"Forbidden - Request permanently rejected">>)
  ELSE IF matchingGrant.r = THROW THEN Uncaught(r)
  ELSE IF matchingGrant.r = "found"
  THEN forwardRequestWithSecretSubstitution(
         Log(r, <<"Permanent grant exists for pattern:", SP>>
                \o matchingGrant.pattern),
         req, secretConfig)
  ELSE IF fn = "null"
  THEN Respond(Log([r EXCEPT !.error = "noHandler"],
                   <<"No approval handler configured, rejecting">>),
               403, <<"Forbidden - No approval handler">>)
  ELSE RequestApproval(
         Log(r, <<"Requesting approval via Telegram...">>),
         req.url.host, req.method, path,
         generatePatternOptions(req.method, path,
                                matchPathToTemplate(req.url.host, req.method, path)))

\* handleHttpRequest(req, secretConfig, path), up to its first await
handleHttpRequest(r0, fn, req, secretConfig, path) ==
  HttpDecide([r0 EXCEPT !.flow = "http",
                        !.keys = <<getRequestKey(req.method, path)>>,
                        !.lookedUp = TRUE],
             fn, req, secretConfig, path,
             findMatchingRejection(secretConfig, getRequestKey(req.method, path)),
             findMatchingGrant(secretConfig, getRequestKey(req.method, path)))

\* The fields of the parsed request with their keys, queries first
GraphQLEntries(parsed) ==
  [i \in DOMAIN parsed.queries |->
     [key |-> <<"GRAPHQL", SP, "query", SP>> \o formatGraphQLField(parsed.queries[i]),
      opType |-> "query", field |-> parsed.queries[i]]]
  \o [i \in DOMAIN parsed.mutations |->
     [key |-> <<"GRAPHQL", SP, "mutation", SP>>
              \o formatGraphQLField(parsed.mutations[i]),
      opType |-> "mutation", field |-> parsed.mutations[i]]]

\* One turn of the loop over findMatchingRejection: the first key with a
\* matching rejection (or a throw) ends the loop
FirstOf(matchingRejection, rest) ==
  IF matchingRejection.r = "none" THEN rest ELSE matchingRejection

RECURSIVE FirstRejection(_, _)
\* The loop "for (const key of keys)" over findMatchingRejection
FirstRejection(secretConfig, keys) ==
  IF keys = <<>> THEN [r |-> "none", pattern |-> <<>>]
  ELSE FirstOf(findMatchingRejection(secretConfig, Head(keys)),
               FirstRejection(secretConfig, Tail(keys)))

\* One turn of the loops over findMatchingGrant: the entry goes to
\* grantedPatterns or to needsApproval, and the later entries follow
ScanStep(entry, matchingGrant, scan) ==
  IF matchingGrant.r = THROW
  THEN [thrown |-> TRUE, grantedPatterns |-> <<>>, needsApproval |-> <<>>]
  ELSE IF matchingGrant.r = "found"
  THEN [scan EXCEPT !.grantedPatterns = <<matchingGrant.pattern>> \o @]
  ELSE [scan EXCEPT !.needsApproval = <<entry>> \o @]

RECURSIVE ScanGrants(_, _)
\* The two loops over findMatchingGrant that fill grantedPatterns and
\* needsApproval; thrown when a lookup throws
ScanGrants(secretConfig, entries) ==
  IF entries = <<>>
  THEN [thrown |-> FALSE, grantedPatterns |-> <<>>, needsApproval |-> <<>>]
  ELSE ScanStep(Head(entries),
                findMatchingGrant(secretConfig, Head(entries).key),
                ScanGrants(secretConfig, Tail(entries)))

RECURSIVE LogAll(_, _, _)
LogAll(r, prefix, lines) ==
  IF lines = <<>> THEN r
  ELSE LogAll(Log(r, prefix \o Head(lines)), prefix, Tail(lines))

\* needsApproval.map(({ key }) => key.replace("GRAPHQL ", "")).join("; ")
ApprovalDescription(needsApproval) ==
  JoinWith([i \in DOMAIN needsApproval |->
              ReplaceFirst(needsApproval[i].key, <<"GRAPHQL", SP>>, <<>>)],
           <<";", SP>>)

\* The pattern options of a GraphQL approval: those of the field when one
\* field needs approval, the single option "all" otherwise
GraphQLPatternOptions(needsApproval, approvalDescription) ==
  IF Len(needsApproval) = 1
  THEN generateGraphQLFieldPatternOptions(needsApproval[1].opType,
                                          needsApproval[1].field)
  ELSE <<[pattern |-> <<"all">>,
          description |-> <<"Exact:", SP>> \o approvalDescription]>>

\* handleGraphQLRequest from "if (needsApproval.length === 0)" on
GraphQLApprove(r, fn, req, secretConfig, grantedPatterns, approvalDescription) ==
  IF r.needsApproval = <<>>
  THEN forwardRequestWithSecretSubstitution(
         Log(r, <<"All GraphQL operations are granted">>), req, secretConfig)
  ELSE IF fn = "null"
  THEN Respond(Log(LogAll([r EXCEPT !.error = "noHandler"],
                          <<"Permanent grant exists for pattern:", SP>>,
                          grantedPatterns),
                   <<"No approval handler configured, rejecting">>),
               403, <<"Forbidden - No approval handler">>)
  ELSE RequestApproval(
         Log(LogAll(r, <<"Permanent grant exists for pattern:", SP>>,
                    grantedPatterns),
             <<"Requesting approval for:", SP>> \o approvalDescription),
         req.url.host, "GRAPHQL", approvalDescription,
         GraphQLPatternOptions(r.needsApproval, approvalDescription))

\* handleGraphQLRequest after the rejection loop and the grant loops
GraphQLDecide(r, fn, req, secretConfig, matchingRejection, scan) ==
  IF matchingRejection.r = THROW THEN Uncaught(r)
  ELSE IF matchingRejection.r = "found"
  THEN Respond(Log(r, <<"Permanent rejection exists for pattern:", SP>>
                      \o matchingRejection.pattern),
               403, <<"Forbidden - Request permanently rejected">>)
  ELSE IF scan.thrown THEN Uncaught(r)
  ELSE GraphQLApprove([r EXCEPT !.needsApproval = scan.needsApproval],
                      fn, req, secretConfig, scan.grantedPatterns,
                      ApprovalDescription(scan.needsApproval))

\* handleGraphQLRequest after the request was parsed
GraphQLParsed(rg, fn, req, secretConfig, parsed) ==
  IF parsed.thrown THEN Uncaught(rg)
  ELSE IF ~parsed.ok
  THEN Respond(Log([rg EXCEPT !.error = "parse"],
                   <<"Could not parse GraphQL request body">>),
               400, <<"Bad Request - Invalid GraphQL request">>)
  ELSE GraphQLDecide(
         Log([rg EXCEPT !.keys = getGraphQLRequestKeys(parsed), !.lookedUp = TRUE],
             <<"GraphQL:", SP>> \o getGraphQLDescription(parsed)),
         fn, req, secretConfig,
         FirstRejection(secretConfig, getGraphQLRequestKeys(parsed)),
         ScanGrants(secretConfig, GraphQLEntries(parsed)))

\* handleGraphQLRequest(req, secretConfig, path), up to its first await
handleGraphQLRequest(r0, fn, req, secretConfig, path) ==
  GraphQLParsed([r0 EXCEPT !.flow = "graphql"], fn, req, secretConfig,
                IF req.method = "GET"
                THEN parseGraphQLFromSearchParams(SearchParams(req.url.search))
                ELSE IF req.body # NULL THEN parseGraphQLRequest(req.body)
                ELSE ParsedNull)

\* The first log lines of handleRequest
Received(reqOriginal, req, params) ==
  LogAll(Log([Idle EXCEPT !.input = reqOriginal],
             <<req.method, SP>> \o req.url.host \o req.url.pathname),
         <<"?", SP>>,
         [i \in DOMAIN params |-> params[i].k \o <<"=">> \o params[i].v])

\* The log of the body of a request that carries a secret
WithBody(r, idx, req) ==
  IF req.body # NULL /\ req.body # <<>>
  THEN Log([r EXCEPT !.secret = idx], <<"body:", SP>> \o req.body)
  ELSE [r EXCEPT !.secret = idx]

\* handleRequest after findSecretConfigFromHeaders
Dispatch(cfg, fn, req, r, idx) ==
  IF idx = 0
  THEN forwardRequest(Log(r, <<"Request without secrets forwarding">>), req)
  ELSE IF isGraphQLEndpoint(cfg, req.url.host, req.url.pathname)
  THEN handleGraphQLRequest(WithBody(r, idx, req), fn, req,
                            cfg[req.url.host].secrets[idx],
                            req.url.pathname \o req.url.search)
  ELSE handleHttpRequest(WithBody(r, idx, req), fn, req,
                         cfg[req.url.host].secrets[idx],
                         req.url.pathname \o req.url.search)

\* handleRequest after loadRequest
Loaded(cfg, fn, reqOriginal, req) ==
  Dispatch(cfg, fn, req,
           Received(reqOriginal, req, SearchParams(req.url.search)),
           findSecretConfigFromHeaders(cfg, req))

\* handleRequest(reqOriginal), up to its first await
handleRequest(cfg, fn, reqOriginal) ==
  Loaded(cfg, fn, reqOriginal, loadRequest(reqOriginal))

\* The secret a request in flight was matched to
SecretOf(cfg, r) == cfg[loadRequest(r.input).url.host].secrets[r.secret]

\* The return statement after the patterns were added: forward for grants,
\* 403 for rejections
Finish(cfg, r) ==
  [config |-> cfg,
   request |->
     IF r.queueKind = "grant"
     THEN forwardRequestWithSecretSubstitution(r, loadRequest(r.input),
                                               SecretOf(cfg, r))
     ELSE Respond(r, 403, <<"Forbidden - Request permanently rejected">>)]

\* The list addGrant or addRejection works on
ListOf(cfg, r) ==
  IF r.queueKind = "grant" THEN SecretOf(cfg, r).grants
  ELSE SecretOf(cfg, r).rejections

\* secretC.grants.push(requestKey) or secretC.rejections.push(requestKey)
Pushed(cfg, r) ==
  IF r.queueKind = "grant"
  THEN PushGrant(cfg, loadRequest(r.input).url.host, r.secret, Head(r.queue))
  ELSE PushRejection(cfg, loadRequest(r.input).url.host, r.secret, Head(r.queue))

\* The push of addGrant or addRejection and the call of saveConfig, which
\* serializes the config at once and awaits the write
PushAndSave(cfg, r) ==
  [config |-> Pushed(cfg, r),
   request |-> [r EXCEPT !.pc = "saving", !.queue = Tail(@),
                         !.write = ConfigText(Pushed(cfg, r)),
                         !.writes = @ + 1]]

\* addGrant and addRejection without the includes test
AddPatternsAlways(cfg, r) ==
  IF r.queue = <<>> THEN Finish(cfg, r) ELSE PushAndSave(cfg, r)

\* A handler that goes on to its return statement without addGrant or
\* addRejection
AddPatternsNever(cfg, r) == Finish(cfg, [r EXCEPT !.queue = <<>>])

RECURSIVE AddPatterns(_, _)
\* "await addGrant(secretConfig, key)" or "await addRejection(...)" for the
\* patterns still queued: a pattern the list includes is passed over, the
\* first other one is pushed and its saveConfig awaited; with nothing left
\* the handler goes on to its return statement
AddPatterns(cfg, r) ==
  IF r.queue = <<>> THEN Finish(cfg, r)
  ELSE IF ListIncludes(ListOf(cfg, r), Head(r.queue))
  THEN AddPatterns(cfg, [r EXCEPT !.queue = Tail(@)])
  ELSE PushAndSave(cfg, r)

\* The switch on approval.type of both sub-flows
Decided(cfg, r, approval) ==
  LET req == loadRequest(r.input)
      single == r.flow = "http" \/ Len(r.needsApproval) = 1
      queue == IF single THEN <<approval.pattern>>
               ELSE [i \in DOMAIN r.needsApproval |-> r.needsApproval[i].key]
  IN CASE approval.type = "allow-once" ->
            [config |-> cfg,
             request |-> forwardRequestWithSecretSubstitution(
                           Log(r, <<"Approved once">>), req, SecretOf(cfg, r))]
       [] approval.type = "allow-forever" ->
            AddPatterns(cfg,
              [(IF single
                THEN Log(r, <<"Approved forever with pattern:", SP>> \o approval.pattern)
                ELSE Log(r, <<"Approved forever">>))
               EXCEPT !.queue = queue, !.queueKind = "grant"])
       [] approval.type = "reject-once" ->
            [config |-> cfg,
             request |-> Respond(Log(r, <<"Rejected once">>),
                                 403, <<"Forbidden - Request rejected">>)]
       [] approval.type = "reject-forever" ->
            AddPatterns(cfg,
              [(IF single
                THEN Log(r, <<"Rejected forever with pattern:", SP>> \o approval.pattern)
                ELSE Log(r, <<"Rejected forever">>))
               EXCEPT !.queue = queue, !.queueKind = "rejection"])

\* A handler that stores the request key as a grant on allow-once
AfterApprovalStored(cfg, r0, approval) ==
  Decided(cfg, [r0 EXCEPT !.approval = approval],
          IF approval.type = "allow-once"
          THEN [type |-> "allow-forever", pattern |-> Head(r0.keys)]
          ELSE approval)

\* The handler resumes with the response of the approval transport
AfterApproval(cfg, r0, approval) ==
  Decided(cfg, [r0 EXCEPT !.approval = approval], approval)

\* A catch block that passes the request on as it came
ApprovalErrorForwards(r, error) ==
  Fetch([r EXCEPT !.error = error], loadRequest(r.input), loadRequest(r.input).headers)

\* The catch block around the approval and the policy write
ApprovalError(r, error) ==
  Respond(Log([r EXCEPT !.error = error],
              <<"Approval timeout or error:", SP, "Error">>),
          403, <<"Forbidden - Approval timeout">>)

\* A timer that resolves the approval with allow-once
TimedOutAllowed(cfg, r) ==
  AfterApproval(cfg, Log(r, <<"Request", SP, "timed out">>),
                [type |-> "allow-once", pattern |-> <<>>])

\* The timer of requestApproval fires: it logs and resolves the approval
\* with reject-once, and the handler resumes
TimedOut(cfg, r) ==
  AfterApproval(cfg, Log(r, <<"Request", SP, "timed out">>),
                [type |-> "reject-once", pattern |-> <<>>])

\* A catch block that calls fetch once more before it gives up
FetchRetried(r) ==
  IF r.fetches < 2
  THEN [r EXCEPT !.fetches = @ + 1]
  ELSE Respond(Log([r EXCEPT !.error = "fetch"],
                   <<"Error forwarding request:", SP, "Error">>),
               502, <<"Bad Gateway:", SP, "Error">>)

\* The catch block around fetch: 502 with the text of the error
FetchFailed(r) ==
  Respond(Log([r EXCEPT !.error = "fetch"],
              <<"Error forwarding request:", SP, "Error">>),
          502, <<"Bad Gateway:", SP, "Error">>)

\* ------------------------------------------------------------ requests

Request(method, host, pathname, search, headers, body) ==
  [method |-> method,
   url |-> [host |-> host, pathname |-> pathname, search |-> search],
   headers |-> headers, body |-> body]

\* Headers with a Host header and the credential in Authorization
Bearer(host, token) ==
  ("host" :> host) @@ ("authorization" :> (<<"Bearer", SP>> \o token))

Fake1 == <<"f", "k">>
Fake2 == <<"t", "k">>
Fake3 == <<"n", "v">>

\* Requests to plain HTTP paths: one that no stored pattern decides, two
\* without a configured secret, and three that stored patterns decide
HttpRequests ==
  { Request("POST", <<"h">>, <<"/", "r", "/", "1">>, <<"?", "q", "=", "1">>,
            Bearer(<<"h">>, Fake1 \o <<SP>> \o Fake1) @@ ("x-token" :> Fake1),
            <<"payload">>),
    Request("GET", <<"h">>, <<"/", "a">>, <<>>, Bearer(<<"h">>, <<"zz">>), NULL),
    Request("POST", <<"x">>, <<"/", "a">>, <<"?", "q", "=", "1">>,
            Bearer(<<"x">>, Fake1), <<"payload">>),
    Request("GET", <<"h">>, <<"/", "r", "/", "1">>, <<>>,
            ("authorization" :> (<<"Bearer", SP>> \o Fake2)), NULL),
    Request("GET", <<"h">>, <<"/", "a">>, <<>>,
            Bearer(<<"h">>, Fake2 \o Fake2 \o <<"k">>), NULL),
    Request("GET", <<"h">>, <<"/", "a">>, <<>>, Bearer(<<"h">>, Fake3), NULL) }

\* The bodies of the GraphQL requests sent with the first credential
Bodies1 ==
  { <<"{query:createUser}">>,
    <<"[{query:user},{query:createUser},{query:fragUser}]">> }

\* Bodies the normalizer does not accept
InvalidBodies ==
  { <<"{query:AB,operationName:C}">>,
    <<"{}">>, <<"{query:1}">>, <<"{query:bad}">>, <<"{query:unknownFragment}">>,
    <<"{query:fragmentOnly}">>, <<"{query:typeDefinition}">>, <<"null">>,
    <<"junk">>, <<>> }

\* The bodies of the GraphQL requests sent with the second credential
Bodies2 ==
  { <<"{query:user}">>, <<"{query:search}">>, <<"[{query:node},{query:createUser}]">>,
    <<"{query:createUser}">> }

\* The query strings of the GraphQL requests sent with GET
Searches ==
  { <<"?", "query", "=", "fragment F on Query{user}">> }

\* Query strings with a field that no stored pattern decides: once,
\* twice through a fragment spread, and beside a fragment that spreads
\* itself and that no operation spreads
OtherSearches ==
  { <<"?", "query", "=", "query{user}">>,
    <<"?", "query", "=", "query{...F user} fragment F on Query{user}">>,
    <<"?", "query", "=", "query{user} fragment A on Query{...A}">> }

\* Query strings the normalizer does not accept
InvalidSearches ==
  { <<"?", "query", "=", "query{user}", "&", "variables", "=", "junk">>,
    <<"?", "query", "=", "query{">>,
    <<"?", "query", "=",
      "query{...A} fragment A on Query{...B} fragment B on Query{...A}">>,
    <<"?", "q", "=", "1">> }

GraphQLPost(token, body) ==
  Request("POST", <<"h">>, <<"/", "g">>, <<>>, Bearer(<<"h">>, token), body)

GraphQLGet(method, search) ==
  Request(method, <<"h">>, <<"/", "g">>, search, Bearer(<<"h">>, Fake1), NULL)

\* Requests to the GraphQL endpoint that the normalizer accepts
GraphQLRequests ==
  { GraphQLPost(Fake1, body) : body \in Bodies1 }
  \cup { GraphQLPost(Fake2, body) : body \in Bodies2 }
  \cup { GraphQLGet("GET", search) : search \in Searches }

\* Requests to the GraphQL endpoint that it does not accept, and some it does
InvalidRequests ==
  { GraphQLPost(Fake1, body) : body \in InvalidBodies }
  \cup { GraphQLGet("GET", search) :
           search \in InvalidSearches \cup OtherSearches \cup Searches }
  \cup { GraphQLGet("HEAD", <<>>),
         GraphQLGet("HEAD", <<"?", "query", "=", "query{user}">>) }

\* Requests with the credential whose environment variable is not set: one
\* that a stored grant decides, one that needs approval; and a request
\* without a credential
EnvRequests ==
  { Request("GET", <<"h">>, <<"/", "a">>, <<>>, Bearer(<<"h">>, Fake3), NULL),
    Request("GET", <<"h">>, <<"/", "a">>, <<>>, Bearer(<<"h">>, <<"zz">>), NULL),
    Request("POST", <<"h">>, <<"/", "r", "/", "1">>, <<>>, Bearer(<<"h">>, Fake3),
            <<"payload">>) }

\* Requests that differ in their query strings only: to a path that needs
\* approval, to a rejected path and to a granted path; and a request without
\* a credential
QueryRequests ==
  { Request("POST", <<"h">>, <<"/", "r", "/", "1">>, search, Bearer(<<"h">>, Fake1),
            <<"payload">>) : search \in {<<>>, <<"?", "q", "=", "1">>} }
  \cup { Request("GET", <<"h">>, pathname, <<"?", "q", "=", "1">>,
                  Bearer(<<"h">>, Fake2), NULL) :
            pathname \in {<<"/", "r", "/", "1">>, <<"/", "a">>} }
  \cup { Request("GET", <<"h">>, <<"/", "a">>, <<"?", "q", "=", "1">>,
                  Bearer(<<"h">>, <<"zz">>), NULL) }

\* A request to a path of the template r/{id} with a trailing slash, and a
\* request without a credential
SlashRequests ==
  { Request("POST", <<"h">>, <<"/", "r", "/", "1", "/">>, <<>>,
            Bearer(<<"h">>, Fake1), <<"payload">>),
    Request("GET", <<"h">>, <<"/", "a">>, <<>>, Bearer(<<"h">>, <<"zz">>), NULL) }

\* Requests of every way a handler can end: one that needs approval and a
\* write, one whose grant lookup throws, one the normalizer does not accept,
\* one whose body makes the normalizer throw, one whose secret the
\* environment does not resolve, one without a credential
MixedRequests ==
  { Request("POST", <<"h">>, <<"/", "r", "/", "1">>, <<>>, Bearer(<<"h">>, Fake1),
            <<"payload">>),
    GraphQLPost(Fake2, <<"{query:search}">>),
    GraphQLPost(Fake1, <<"junk">>),
    GraphQLPost(Fake1, <<"null">>),
    Request("GET", <<"h">>, <<"/", "a">>, <<>>, Bearer(<<"h">>, Fake3), NULL),
    Request("GET", <<"h">>, <<"/", "a">>, <<>>, Bearer(<<"h">>, <<"zz">>), NULL) }

\* The requests the guest sends, by the kind of traffic of a run
Requests(kind) ==
  CASE kind = "http" -> HttpRequests
    [] kind = "query" -> QueryRequests
    [] kind = "slash" -> SlashRequests
    [] kind = "mixed" -> MixedRequests
    [] kind = "graphql" -> GraphQLRequests
    [] kind = "invalid" -> InvalidRequests
    [] kind = "env" -> EnvRequests

\* -------------------------------------------------------- state machine

\* The number of requests the proxy handles at the same time
MaxInFlight == 2
\* The number of forever decisions the operator takes
MaxForever == 2

VARIABLES
  config,             \* the in-memory policy (config of the policy store)
  disk,               \* the text of the configuration file
  requestApprovalFn,  \* "null" until the approval handler is installed
  requests,           \* the requests in flight, one per slot
  forever,            \* the forever decisions taken so far
  traffic,            \* the kind of traffic of this run
  probe,              \* one call of matchesPattern: its arguments and result
  bot                 \* the module state of the Telegram transport

vars == <<config, disk, requestApprovalFn, requests, forever, traffic, probe, bot>>

Slots == 1..MaxInFlight

\* What Number() returns for a text that is no number, and the id of an
\* update that has no sender (ctx.from?.id)
NaN == -1
Undefined == -2

\* `${kind}:${requestId}` and `${kind}:${requestId}:${i}`; index is -1 for
\* the keys without one
Key(kind, requestId, index) == [kind |-> kind, requestId |-> requestId, index |-> index]

NoUpdate == [from |-> Undefined, data |-> Key("none", 0, -1), outcome |-> "none"]

\* The module after it is loaded with TELEGRAM_OWNER_ID = ownerId.
\* calls[id] is what the closure of the call of requestApproval with that
\* request id holds: its options, its pendingRequest.callbackKeys, whether
\* sendMessage is outstanding, and what its promise is resolved with
\* (<<>> while it is pending). timers holds the ids whose timeout is armed,
\* expanding the ids whose reject-forever handler awaits answerCallbackQuery
BotLoaded(ownerId) ==
  [ownerId |-> ownerId,
   requestIdCounter |-> 0,
   pendingRequests |-> {},
   callbackHandlers |-> {},
   timers |-> {},
   calls |-> <<>>,
   expanding |-> {},
   update |-> NoUpdate,
   running |-> TRUE]

\* No call of matchesPattern outside a request
NoProbe == [pattern |-> <<>>, requestKey |-> <<>>, result |-> "unused"]

Start(kind) ==
  /\ config = InitialConfig
  /\ disk = ConfigText(InitialConfig)
  /\ requestApprovalFn = "null"
  /\ requests = [i \in Slots |-> Idle]
  /\ forever = 0
  /\ traffic = kind
  /\ probe = NoProbe
  /\ bot = BotLoaded("7")

InitHttp == Start("http")
InitGraphQL == Start("graphql")
InitInvalid == Start("invalid")
InitEnv == Start("env")

\* setRequestApprovalHandler(fn)
SetRequestApprovalHandler ==
  /\ requestApprovalFn' = "transport"
  /\ UNCHANGED <<config, disk, requests, forever, traffic, probe, bot>>

\* A request arrives and takes the first free slot: handleRequest runs to
\* its first await or its return
Receive(i, reqOriginal) ==
  /\ requests[i].pc = "idle"
  /\ \A j \in 1..(i - 1) : requests[j].pc # "idle"
  /\ requests' = [requests EXCEPT
                    ![i] = handleRequest(config, requestApprovalFn, reqOriginal)]
  /\ UNCHANGED <<config, disk, requestApprovalFn, forever, traffic, probe, bot>>

\* The responses the transport can resolve an approval with
ApprovalResponses(r) ==
  {[type |-> "allow-once", pattern |-> <<>>],
   [type |-> "reject-once", pattern |-> <<>>]}
  \cup {[type |-> type, pattern |-> r.call.patternOptions[k].pattern] :
          type \in {"allow-forever", "reject-forever"},
          k \in DOMAIN r.call.patternOptions}

\* The approval promise resolves: the handler runs on to its next await or
\* its return
ApprovalResolve(i, approval) ==
  /\ requests[i].pc = "approval"
  /\ approval \in ApprovalResponses(requests[i])
  /\ approval.type \in {"allow-forever", "reject-forever"} => forever < MaxForever
  /\ LET next == AfterApproval(config, requests[i], approval)
     IN /\ config' = next.config
        /\ requests' = [requests EXCEPT ![i] = next.request]
  /\ forever' = IF approval.type \in {"allow-forever", "reject-forever"}
                THEN forever + 1 ELSE forever
  /\ UNCHANGED <<disk, requestApprovalFn, traffic, probe, bot>>

\* APPROVAL_TIMEOUT_MS pass without a decision of the operator: the timer
\* of the transport fires
ApprovalTimeout(i) ==
  /\ requests[i].pc = "approval"
  /\ LET next == TimedOut(config, requests[i])
     IN /\ config' = next.config
        /\ requests' = [requests EXCEPT ![i] = next.request]
  /\ UNCHANGED <<disk, requestApprovalFn, forever, traffic, probe, bot>>

\* The client closes its connection while the handler awaits the approval:
\* handleRequest reads no abort signal of the request and the transport has
\* no entry point to cancel a pending request, so the handler waits on
ClientDisconnect(i) ==
  /\ requests[i].pc = "approval"
  /\ requests[i].connected
  /\ requests' = [requests EXCEPT ![i].connected = FALSE]
  /\ UNCHANGED <<config, disk, requestApprovalFn, forever, traffic, probe, bot>>

\* The approval promise rejects: the handler that was registered threw or
\* returned a rejected promise
ApprovalReject(i) ==
  /\ requests[i].pc = "approval"
  /\ requests' = [requests EXCEPT ![i] = ApprovalError(@, "approval")]
  /\ UNCHANGED <<config, disk, requestApprovalFn, forever, traffic, probe, bot>>

\* Bun.write of saveConfig completes: the file holds the text serialized
\* when saveConfig was called, and the handler runs on
SaveDone(i) ==
  /\ requests[i].pc = "saving"
  /\ disk' = requests[i].write
  /\ LET next == AddPatterns(config, [requests[i] EXCEPT !.saved = @ + 1])
     IN /\ config' = next.config
        /\ requests' = [requests EXCEPT ![i] = next.request]
  /\ UNCHANGED <<requestApprovalFn, forever, traffic, probe, bot>>

\* Bun.write of saveConfig fails: the Error lands in the catch block
SaveFail(i) ==
  /\ requests[i].pc = "saving"
  /\ requests' = [requests EXCEPT ![i] = ApprovalError(@, "write")]
  /\ UNCHANGED <<config, disk, requestApprovalFn, forever, traffic, probe, bot>>

\* fetch resolves: the upstream's response is returned
FetchReturn(i) ==
  /\ requests[i].pc = "fetching"
  /\ requests' = [requests EXCEPT ![i] = Respond(@, 200, <<"upstream">>)]
  /\ UNCHANGED <<config, disk, requestApprovalFn, forever, traffic, probe, bot>>

\* fetch rejects: 502
FetchThrow(i) ==
  /\ requests[i].pc = "fetching"
  /\ requests' = [requests EXCEPT ![i] = FetchFailed(@)]
  /\ UNCHANGED <<config, disk, requestApprovalFn, forever, traffic, probe, bot>>

\* The response has been sent: the slot is free again
Close(i) ==
  /\ requests[i].pc = "done"
  /\ requests' = [requests EXCEPT ![i] = Idle]
  /\ UNCHANGED <<config, disk, requestApprovalFn, forever, traffic, probe, bot>>

Next ==
  \/ SetRequestApprovalHandler
  \/ \E i \in Slots, reqOriginal \in Requests(traffic) : Receive(i, reqOriginal)
  \/ \E i \in Slots : \E approval \in ApprovalResponses(requests[i]) :
       ApprovalResolve(i, approval)
  \/ \E i \in Slots : ApprovalTimeout(i)
  \/ \E i \in Slots : ClientDisconnect(i)
  \/ \E i \in Slots : ApprovalReject(i)
  \/ \E i \in Slots : SaveDone(i)
  \/ \E i \in Slots : SaveFail(i)
  \/ \E i \in Slots : FetchReturn(i)
  \/ \E i \in Slots : FetchThrow(i)
  \/ \E i \in Slots : Close(i)

\* Plain HTTP traffic
SpecHttp == InitHttp /\ [][Next]_vars
\* Traffic to the GraphQL endpoint
SpecGraphQL == InitGraphQL /\ [][Next]_vars
\* Traffic to the GraphQL endpoint that is mostly malformed
SpecInvalid == InitInvalid /\ [][Next]_vars
\* Traffic with a credential that the environment does not resolve
SpecEnv == InitEnv /\ [][Next]_vars

\* Traffic of HTTP requests with trailing and doubled slashes
InitSlash == Start("slash")
SpecSlash == InitSlash /\ [][Next]_vars

\* Traffic of HTTP requests with and without query strings
InitQuery == Start("query")
SpecQuery == InitQuery /\ [][Next]_vars

\* A GraphQL pattern or key: "GRAPHQL <opType> <field expression>"
GraphQLKey(opType, field) == <<"GRAPHQL", SP, opType, SP>> \o field

\* The patterns of the probes that hold neither "*" nor "$ANY"
LiteralPatterns ==
  {<<"GET", SP, "/", "a">>,
   <<"GET", SP, "/", "a", "/", "b">>,
   <<"POST", SP, "/", "a">>,
   <<"GET", SP, "/", "a", "?">>,
   <<"GET", SP, "/", "[", "a", "b", "]">>,
   <<"GET">>,
   GraphQLKey("query", <<"user">>),
   GraphQLKey("mutation", <<"user">>),
   GraphQLKey("query", <<"user", "(", "a", ":", SP, "1", ",", SP, "b", ":", SP, "2", ")">>),
   GraphQLKey("query", <<"user", "(", "b", ":", SP, "2", ",", SP, "a", ":", SP, "1", ")">>),
   GraphQLKey("query", <<"user", "(", "a", ":", "1", ",", "b", ":", "2", ")">>),
   GraphQLKey("query", <<"user", "(", "a", ":", SP, "1", ",", SP, "a", ":", SP, "1", ")">>),
   GraphQLKey("query", <<"user", "(", "a", ":", SP, "$", "FOO", ")">>),
   GraphQLKey("query", <<"user", "(", "a", ":", SP, "1", ",", SP, "b", ":", SP, "$", "FOO", ")">>),
   GraphQLKey("query", <<"user", "(", "a", ":", SP, "[", "1", ",", SP, "2", "]", ")">>),
   GraphQLKey("query", <<"user", "(", "a", ":", SP, "\"", "1", "\"", ",", SP, "b", ":", SP, "2", ")">>),
   GraphQLKey("query", <<"user", "(", "a", ":", SP, "{", "x", ":", SP, "1", ",", SP,
                         "y", ":", SP, "2", "}", ")">>)}

\* The patterns of the probes with "*" or "$ANY"
WildPatterns ==
  {<<"GET", SP, "*">>,
   <<"POST", SP, "*">>,
   <<"GET", SP, "/", "*">>,
   <<"GET", SP, "/", "a", "/", "*">>,
   <<"GET", SP, "/", "*", "/", "b">>,
   <<"GET", SP, "/", "*", "/", "*">>,
   <<"GET", SP, "/", "a", "*">>,
   <<"GRAPHQL", SP, "*">>,
   GraphQLKey("query", <<"*">>),
   GraphQLKey("mutation", <<"*">>),
   GraphQLKey("query", <<"user", "(", "a", ":", SP, "$", "ANY", ")">>),
   GraphQLKey("query", <<"user", "(", "a", ":", SP, "$", "ANY", ",", SP, "b", ":", SP, "2", ")">>),
   GraphQLKey("query", <<"user", "(", "a", ":", SP, "$", "ANY", ",", SP, "b", ":", SP, "$", "ANY", ")">>),
   GraphQLKey("query", <<"user", "(", "a", ":", SP, "[", "1", ",", SP, "$", "ANY", "]", ")">>),
   GraphQLKey("query", <<"user", "(", "a", ":", SP, "{", "x", ":", SP, "$", "ANY", ",", SP,
                         "y", ":", SP, "2", "}", ")">>)}

ProbePatterns == LiteralPatterns \cup WildPatterns

\* The request keys of the probes: the literal patterns and keys next to
\* them
ProbeKeys ==
  LiteralPatterns \cup
  {<<"GET", SP, "/", "a", "b">>,
   <<"GET", SP, "/", "b">>,
   <<"GET", SP, "/", "a", "/", "c">>,
   <<"GET", SP, "/", "c", "/", "b">>,
   <<"GET", SP, "/", "a", "/", "b", "/", "c">>,
   <<"GET", SP, "/", "a", "/">>,
   <<"POST", SP, "/", "a", "/", "b">>,
   <<"GET", SP, "/">>,
   GraphQLKey("query", <<"node">>),
   GraphQLKey("query", <<"user", "(", "a", ":", SP, "1", ")">>),
   GraphQLKey("query", <<"user", "(", "a", ":", SP, "null", ")">>),
   GraphQLKey("query", <<"user", "(", "a", ":", SP, "2", ",", SP, "a", ":", SP, "1", ")">>),
   GraphQLKey("query", <<"user", "(", "a", ":", SP, "[", "2", ",", SP, "1", "]", ")">>),
   GraphQLKey("query", <<"user", "(", "a", ":", SP, "[", "1", ",", SP, "7", "]", ")">>),
   GraphQLKey("query", <<"user", "(", "a", ":", SP, "[", "1", ",", SP, "2", ",", SP, "7", "]", ")">>),
   GraphQLKey("query", <<"user", "(", "a", ":", SP, "{", "x", ":", SP, "7", ",", SP,
                         "y", ":", SP, "2", "}", ")">>),
   GraphQLKey("query", <<"user", "(", "a", ":", SP, "{", "x", ":", SP, "1", "}", ")">>),
   GraphQLKey("query", <<"user", "(", "a", ":", SP, "2", ",", SP, "b", ":", SP, "2", ")">>),
   GraphQLKey("mutation", <<"user", "(", "b", ":", SP, "2", ",", SP, "a", ":", SP, "1", ")">>),
   GraphQLKey("query", <<"user", "(", "a", ":", SP, "{", "y", ":", SP, "2", ",", SP,
                         "x", ":", SP, "1", "}", ")">>)}

\* matchesPattern is about to be called with a pattern and a request key
InitMatch ==
  /\ config = InitialConfig
  /\ disk = ConfigText(InitialConfig)
  /\ requestApprovalFn = "null"
  /\ requests = [i \in Slots |-> Idle]
  /\ forever = 0
  /\ traffic = "match"
  /\ probe \in [pattern : ProbePatterns, requestKey : ProbeKeys, result : {"none"}]
  /\ bot = BotLoaded("7")

\* The call matchesPattern(pattern, requestKey) returns or throws
MatchProbe ==
  /\ probe.result = "none"
  /\ probe' = [probe EXCEPT !.result = matchesPattern(probe.pattern, probe.requestKey)]
  /\ UNCHANGED <<config, disk, requestApprovalFn, requests, forever, traffic, bot>>

\* Calls of the pattern engine alone
SpecMatch == InitMatch /\ [][MatchProbe]_vars

\* A request whose suggestions are built: for kind "http" op is the method
\* and path the pathname with the query string; for kind "graphql" op is
\* the operation type and field the one field that needs approval
Subject(kind, op, path, field) ==
  [kind |-> kind, op |-> op, path |-> path, field |-> field]

NoField == [name |-> <<>>, args |-> <<>>]

FieldArg(name, value) == [name |-> <<name>>, value |-> value]

\* HTTP requests to the host with the OpenAPI spec: paths of its templates
\* with one and with two parameters, with a query string, with a "*" of
\* their own, with a trailing and with a doubled slash, and paths of no
\* template
HttpSubjects ==
  { Subject("http", "GET", <<"/", "r", "/", "1">>, NoField),
    Subject("http", "GET", <<"/", "r", "/", "1", "?", "q", "=", "1">>, NoField),
    Subject("http", "POST", <<"/", "r", "/", "1">>, NoField),
    Subject("http", "POST", <<"/", "o", "/", "b", "/", "2">>, NoField),
    Subject("http", "POST", <<"/", "*", "/", "b", "/", "2">>, NoField),
    Subject("http", "GET", <<"/", "r", "/", "*">>, NoField),
    Subject("http", "GET", <<"/", "r", "/", "1", "/">>, NoField),
    Subject("http", "GET", <<"/", "r", "/", "/", "1">>, NoField),
    Subject("http", "GET", <<"/", "a">>, NoField),
    Subject("http", "GET", <<"/">>, NoField) }

\* GraphQL fields with no, one and two arguments and with the kinds of
\* values a request can carry
GraphQLSubjects ==
  { Subject("graphql", "query", <<>>, [name |-> <<"user">>, args |-> <<>>]),
    Subject("graphql", "query", <<>>,
            [name |-> <<"user">>, args |-> <<FieldArg("a", JNumber(<<"1">>))>>]),
    Subject("graphql", "query", <<>>,
            [name |-> <<"user">>,
             args |-> <<FieldArg("a", JNumber(<<"1">>)),
                        FieldArg("b", JNumber(<<"2">>))>>]),
    Subject("graphql", "mutation", <<>>,
            [name |-> <<"user">>,
             args |-> <<FieldArg("a", JString(<<"1">>)),
                        FieldArg("b", JNumber(<<"2">>))>>]),
    Subject("graphql", "query", <<>>,
            [name |-> <<"user">>,
             args |-> <<FieldArg("a", JObject(<<[k |-> <<"x">>, v |-> JNumber(<<"1">>)],
                                                [k |-> <<"y">>, v |-> JNumber(<<"2">>)]>>))>>]),
    Subject("graphql", "query", <<>>,
            [name |-> <<"user">>,
             args |-> <<FieldArg("a", JArray(<<JNumber(<<"1">>), JNumber(<<"2">>)>>))>>]),
    Subject("graphql", "query", <<>>,
            [name |-> <<"user">>, args |-> <<FieldArg("a", JNull)>>]),
    Subject("graphql", "query", <<>>,
            [name |-> <<"user">>,
             args |-> <<FieldArg("a", JNumber(<<"2">>)),
                        FieldArg("a", JNumber(<<"1">>))>>]) }

\* The request key of a subject
SubjectKey(subject) ==
  IF subject.kind = "http" THEN getRequestKey(subject.op, subject.path)
  ELSE GraphQLKey(subject.op, formatGraphQLField(subject.field))

\* The request keys the suggestions are matched against: the keys of the
\* subjects and keys that differ from them in one place
SuggestKeys ==
  { SubjectKey(subject) : subject \in HttpSubjects \cup GraphQLSubjects }
  \cup
  {<<"GET", SP, "/", "r", "/", "2">>,
   <<"GET", SP, "/", "r">>,
   <<"GET", SP, "/", "r", "/", "1", "/", "2">>,
   <<"POST", SP, "/", "o", "/", "b", "/", "7">>,
   <<"POST", SP, "/", "p", "/", "b", "/", "2">>,
   <<"POST", SP, "/", "p", "/", "b", "/", "7">>,
   <<"POST", SP, "/", "p", "/", "c", "/", "2">>,
   <<"POST", SP, "/", "a">>,
   GraphQLKey("query", <<"node">>),
   GraphQLKey("mutation", <<"user">>),
   GraphQLKey("query", <<"user", "(", "a", ":", SP, "2", ")">>),
   GraphQLKey("query", <<"user", "(", "b", ":", SP, "1", ")">>),
   GraphQLKey("query", <<"user", "(", "a", ":", SP, "1", ",", SP, "b", ":", SP, "7", ")">>),
   GraphQLKey("query", <<"user", "(", "a", ":", SP, "7", ",", SP, "b", ":", SP, "2", ")">>),
   GraphQLKey("query", <<"user", "(", "a", ":", SP, "7", ",", SP, "b", ":", SP, "7", ")">>),
   GraphQLKey("mutation", <<"user", "(", "a", ":", SP, "\"", "1", "\"", ",", SP,
                            "b", ":", SP, "7", ")">>),
   GraphQLKey("query", <<"user", "(", "a", ":", SP, "{", "x", ":", SP, "7", ",", SP,
                         "y", ":", SP, "2", "}", ")">>),
   GraphQLKey("query", <<"user", "(", "a", ":", SP, "[", "1", ",", SP, "7", "]", ")">>)}

\* The suggestions of a request are about to be built
InitSuggest ==
  /\ config = InitialConfig
  /\ disk = ConfigText(InitialConfig)
  /\ requestApprovalFn = "null"
  /\ requests = [i \in Slots |-> Idle]
  /\ forever = 0
  /\ traffic = "suggest"
  /\ probe \in [subject : HttpSubjects \cup GraphQLSubjects,
                requestKey : SuggestKeys, done : {FALSE},
                options : {<<>>}, matches : {<<>>}]
  /\ bot = BotLoaded("7")

\* The suggestions with what matchesPattern returns for each of their
\* patterns and the request key
Suggested(options) ==
  [probe EXCEPT !.done = TRUE, !.options = options,
                !.matches = [n \in DOMAIN options |->
                               matchesPattern(options[n].pattern, probe.requestKey)]]

\* handleHttpRequest builds the options of its approval call
HttpSuggest ==
  /\ ~probe.done
  /\ probe.subject.kind = "http"
  /\ probe' = Suggested(generatePatternOptions(
                probe.subject.op, probe.subject.path,
                matchPathToTemplate(<<"h">>, probe.subject.op, probe.subject.path)))
  /\ UNCHANGED <<config, disk, requestApprovalFn, requests, forever, traffic, bot>>

\* handleGraphQLRequest builds the options of its approval call for the one
\* field that needs approval
GraphQLSuggest ==
  /\ ~probe.done
  /\ probe.subject.kind = "graphql"
  /\ probe' = Suggested(generateGraphQLFieldPatternOptions(
                probe.subject.op, probe.subject.field))
  /\ UNCHANGED <<config, disk, requestApprovalFn, requests, forever, traffic, bot>>

\* Calls of the suggestion engine and of the pattern engine on its results
SpecSuggest == InitSuggest /\ [][HttpSuggest \/ GraphQLSuggest]_vars

\* ------------------------------------------------- the Telegram transport

\* The number of approval requests the transport is asked for
MaxApprovals == 2
\* The number of callback keys one approval request registers
MaxCallbackKeys == 7

\* Number(ownerId) for the values of TELEGRAM_OWNER_ID: leading zeros and
\* surrounding blanks are dropped, other text gives NaN
Number(text) ==
  CASE text = "7" -> 7
    [] text = "07" -> 7
    [] text = " 7" -> 7
    [] text = "8" -> 8
    [] text = "me" -> NaN

\* a !== b of two numbers or undefined
StrictlyDiffer(a, b) == a = NaN \/ b = NaN \/ a # b

OwnerIds == {"07", "me"}
\* The senders of updates: two users and an update without a sender
Senders == {7, 8, Undefined}

\* The option lists the proxy asks approval with
OptionLists ==
  { generatePatternOptions("GET", path, matchPathToTemplate(<<"h">>, "GET", path)) :
      path \in {<<"/", "a">>, <<"/", "r", "/", "1">>} }

MaxOptions == 2

\* The data of the callback queries Telegram delivers, and a text message
UpdateData ==
  {Key(kind, id, -1) : kind \in {"once:allow", "once:reject", "reject-forever"},
                       id \in 1..MaxApprovals}
  \cup {Key(kind, id, i) : kind \in {"pat:allow", "pat:reject"},
                           id \in 1..MaxApprovals, i \in 0..(MaxOptions - 1)}
  \cup {Key("message", 0, -1)}

\* registerCallback through reg(key, handler) of the call id
reg(b, id, key) ==
  [b EXCEPT !.calls[id].callbackKeys = Append(@, key),
            !.callbackHandlers = @ \cup {key}]

RECURSIVE regAll(_, _, _)
\* reg for each key of the sequence, in order
regAll(b, id, keys) ==
  IF keys = <<>> THEN b
  ELSE regAll(reg(b, id, Head(keys)), id, Tail(keys))

\* cleanupRequest(requestId)
cleanupRequest(b, requestId) ==
  IF requestId \notin b.pendingRequests THEN b
  ELSE [b EXCEPT !.timers = @ \ {requestId},
                 !.callbackHandlers =
                   @ \ {b.calls[requestId].callbackKeys[k] :
                          k \in DOMAIN b.calls[requestId].callbackKeys},
                 !.pendingRequests = @ \ {requestId}]

\* A promise that takes the value of every call of its resolve function
resolveRawAgain(b, id, res) == [b EXCEPT !.calls[id].response = <<res>>]

\* resolveRaw(res) of the promise of the call id: a promise that is already
\* resolved keeps its value
resolveRaw(b, id, res) ==
  IF b.calls[id].response # <<>> THEN b
  ELSE [b EXCEPT !.calls[id].response = <<res>>]

\* pendingRequest.resolve(res) of the call id
resolve(b, id, res) == resolveRaw(cleanupRequest(b, id), id, res)

Response(type, pattern) == [type |-> type, pattern |-> pattern]

\* The keys of the pattern buttons of one kind for the options of a call
PatternKeys(kind, id, patternOptions) ==
  [i \in 1..Len(patternOptions) |-> Key(kind, id, i - 1)]

\* requestApproval(host, method, path, patternOptions), up to the call of
\* sendMessage
requestApproval(patternOptions) ==
  /\ bot.running
  /\ bot.requestIdCounter < MaxApprovals
  /\ LET id == bot.requestIdCounter + 1
         b == [bot EXCEPT
                 !.requestIdCounter = id,
                 !.pendingRequests = @ \cup {id},
                 !.timers = @ \cup {id},
                 !.calls = Append(@, [patternOptions |-> patternOptions,
                                      callbackKeys |-> <<>>,
                                      sending |-> TRUE,
                                      response |-> <<>>])]
     IN bot' = regAll(b, id,
                 <<Key("once:allow", id, -1), Key("once:reject", id, -1),
                   Key("reject-forever", id, -1)>>
                 \o PatternKeys("pat:allow", id, patternOptions))
  /\ UNCHANGED <<config, disk, requestApprovalFn, requests, forever, traffic, probe>>

\* sendMessage returns
SendReturns(id) ==
  /\ bot.running
  /\ id \in DOMAIN bot.calls
  /\ bot.calls[id].sending
  /\ bot' = [bot EXCEPT !.calls[id].sending = FALSE]
  /\ UNCHANGED <<config, disk, requestApprovalFn, requests, forever, traffic, probe>>

\* sendMessage fails: its catch resolves with reject-once
SendFails(id) ==
  /\ bot.running
  /\ id \in DOMAIN bot.calls
  /\ bot.calls[id].sending
  /\ bot' = resolve([bot EXCEPT !.calls[id].sending = FALSE], id,
                    Response("reject-once", <<>>))
  /\ UNCHANGED <<config, disk, requestApprovalFn, requests, forever, traffic, probe>>

\* The timeout of the call id fires
Timeout(id) ==
  /\ bot.running
  /\ id \in bot.timers
  /\ bot' = resolve([bot EXCEPT !.timers = @ \ {id}], id,
                    Response("reject-once", <<>>))
  /\ UNCHANGED <<config, disk, requestApprovalFn, requests, forever, traffic, probe>>

\* A filter that lets the update of every sender pass
FromAnyone(b, from) == TRUE

\* The filter of bot.use lets the update of this sender pass
FromOwner(b, from) == ~StrictlyDiffer(from, Number(b.ownerId))

\* The handler registered under the key runs up to its first await
handler(b, key) ==
  LET id == key.requestId
  IN CASE key.kind = "once:allow" -> resolve(b, id, Response("allow-once", <<>>))
       [] key.kind = "once:reject" -> resolve(b, id, Response("reject-once", <<>>))
       [] key.kind = "pat:allow" ->
            resolve(b, id, Response("allow-forever",
                                    b.calls[id].patternOptions[key.index + 1].pattern))
       [] key.kind = "pat:reject" ->
            resolve(b, id, Response("reject-forever",
                                    b.calls[id].patternOptions[key.index + 1].pattern))
       [] key.kind = "reject-forever" -> [b EXCEPT !.expanding = @ \cup {id}]

\* The bot handles one update: the owner filter, then the handler of
\* callback queries or of messages. Updates are handled one after the
\* other, so none is taken while a handler awaits
Update(from, data) ==
  /\ bot.running
  /\ bot.expanding = {}
  /\ data.kind = "reject-forever" /\ data \in bot.callbackHandlers
       => Len(bot.calls[data.requestId].callbackKeys) + MaxOptions <= MaxCallbackKeys
  /\ LET seen(outcome) == [from |-> from, data |-> data, outcome |-> outcome]
     IN bot' =
          IF ~FromOwner(bot, from)
          THEN [bot EXCEPT !.update = seen("ignored")]
          ELSE IF data.kind = "message"
          THEN [bot EXCEPT !.update = seen("message")]
          ELSE IF data \notin bot.callbackHandlers
          THEN [bot EXCEPT !.update = seen("expired")]
          ELSE handler([bot EXCEPT !.update = seen("handled")], data)
  /\ UNCHANGED <<config, disk, requestApprovalFn, requests, forever, traffic, probe>>

\* answerCallbackQuery of the reject-forever handler of the call id returns:
\* the handler registers the reject buttons of the options
ExpansionResumes(id) ==
  /\ bot.running
  /\ id \in bot.expanding
  /\ bot' = regAll([bot EXCEPT !.expanding = @ \ {id}], id,
                   PatternKeys("pat:reject", id, bot.calls[id].patternOptions))
  /\ UNCHANGED <<config, disk, requestApprovalFn, requests, forever, traffic, probe>>

\* answerCallbackQuery of the reject-forever handler throws: the handler ends
ExpansionFails(id) ==
  /\ bot.running
  /\ id \in bot.expanding
  /\ bot' = [bot EXCEPT !.expanding = @ \ {id}]
  /\ UNCHANGED <<config, disk, requestApprovalFn, requests, forever, traffic, probe>>

RECURSIVE resolveAll(_, _)
\* shutdown's loop over pendingRequests
resolveAll(b, ids) ==
  IF ids = {} THEN b
  ELSE LET id == CHOOSE x \in ids : \A y \in ids : x <= y
       IN resolveAll(resolve([b EXCEPT !.timers = @ \ {id}], id,
                             Response("reject-once", <<>>)),
                     ids \ {id})

\* shutdown() on SIGINT or SIGTERM; the process exits, its timers and
\* suspended handlers with it
Shutdown ==
  /\ bot.running
  /\ bot' = [resolveAll(bot, bot.pendingRequests) EXCEPT
               !.callbackHandlers = {},
               !.pendingRequests = {},
               !.timers = {},
               !.expanding = {},
               !.running = FALSE]
  /\ UNCHANGED <<config, disk, requestApprovalFn, requests, forever, traffic, probe>>

InitBot ==
  /\ config = InitialConfig
  /\ disk = ConfigText(InitialConfig)
  /\ requestApprovalFn = "null"
  /\ requests = [i \in Slots |-> Idle]
  /\ forever = 0
  /\ traffic = "bot"
  /\ probe = NoProbe
  /\ bot \in {BotLoaded(ownerId) : ownerId \in OwnerIds}

NextBot ==
  \/ \E patternOptions \in OptionLists : requestApproval(patternOptions)
  \/ \E id \in 1..MaxApprovals : SendReturns(id)
  \/ \E id \in 1..MaxApprovals : SendFails(id)
  \/ \E id \in 1..MaxApprovals : Timeout(id)
  \/ \E from \in Senders, data \in UpdateData : Update(from, data)
  \/ \E id \in 1..MaxApprovals : ExpansionResumes(id)
  \/ \E id \in 1..MaxApprovals : ExpansionFails(id)
  \/ Shutdown

\* The transport with the approval requests of the proxy, the updates of
\* Telegram, its timers and the signals of the process
SpecBot == InitBot /\ [][NextBot]_vars

\* ----------------------------------------------------------- properties

\* The request slot i handles, as loadRequest returned it
Req(i) == loadRequest(requests[i].input)

\* Slot i starts to handle a request in this step
Arrives(i) == requests[i].pc = "idle" /\ requests'[i].pc # "idle"

\* The approval of slot i is resolved in this step
Resolves(i) == requests[i].pc = "approval" /\ requests'[i].approval.type # "none"

\* Some header value of the request contains a fake secret that the config
\* holds for the host of the request
CarriesFakeSecret(cfg, req) ==
  /\ req.url.host \in DOMAIN cfg
  /\ \E s \in DOMAIN cfg[req.url.host].secrets, k \in DOMAIN req.headers :
       Includes(req.headers[k], cfg[req.url.host].secrets[s].secret)

\* C3: a request in flight whose header values contain no fake secret
\* configured for its host is forwarded with the method, URL and body it
\* came with and with its headers but for Host; no rejection or grant
\* lookup, no approval request and no secret was matched to it, and its
\* only responses are those of the forward
C3_SecretLocality ==
  \A i \in Slots :
    (requests[i].pc # "idle" /\ ~CarriesFakeSecret(config, Req(i))) =>
      /\ requests[i].fetch.called
      /\ requests[i].fetch.method = requests[i].input.method
      /\ requests[i].fetch.url = requests[i].input.url
      /\ requests[i].fetch.body = requests[i].input.body
      /\ DOMAIN requests[i].fetch.headers = DOMAIN requests[i].input.headers \ {"host"}
      /\ \A k \in DOMAIN requests[i].fetch.headers :
           requests[i].fetch.headers[k] = requests[i].input.headers[k]
      /\ requests[i].secret = 0
      /\ ~requests[i].lookedUp
      /\ ~requests[i].call.called
      /\ requests[i].status \in {0, 200, 502}

\* A request to a host outside the config that carries the text of a fake
\* secret of another host has been answered by the upstream, its
\* Authorization header forwarded as it came
C3_Witness ==
  \E i \in Slots :
    /\ requests[i].pc = "done" /\ requests[i].status = 200
    /\ requests[i].input.url.host = <<"x">>
    /\ Includes(requests[i].input.headers["authorization"], Fake1)
    /\ requests[i].fetch.headers["authorization"] =
         requests[i].input.headers["authorization"]
    /\ requests[i].fetch.body = <<"payload">>

\* The positions of a header value where the fake secret starts
Starts(value, fake) ==
  {p \in 1..(Len(value) - Len(fake) + 1) : SubSeq(value, p, p + Len(fake) - 1) = fake}

\* The value with the real secret at every position where the fake secret
\* starts, the rest of each occurrence dropped and every other position kept
Spliced(value, fake, real) ==
  Concat([p \in 1..Len(value) |->
            IF p \in Starts(value, fake) THEN real
            ELSE IF \E q \in Starts(value, fake) : q < p /\ p < q + Len(fake)
            THEN <<>>
            ELSE <<value[p]>>])

\* The secrets of a request in flight
FakeOf(i) == SecretOf(config, requests[i]).secret
RealOf(i) == getRealSecret(SecretOf(config, requests[i]))

RealSecrets ==
  {getRealSecret(config[ConfiguredHost].secrets[s]) :
     s \in DOMAIN config[ConfiguredHost].secrets} \ {NULL}

\* The options of an approval call show the text
OptionsShow(patternOptions, text) ==
  \E k \in DOMAIN patternOptions :
    \/ Includes(patternOptions[k].pattern, text)
    \/ Includes(patternOptions[k].description, text)

\* The policy lists of the config hold the text
ListsShow(cfg, text) ==
  \E s \in DOMAIN cfg[ConfiguredHost].secrets :
    \E pattern \in Range(cfg[ConfiguredHost].secrets[s].grants)
                     \cup Range(cfg[ConfiguredHost].secrets[s].rejections) :
      Includes(pattern, text)

\* C5: no value that the environment resolves a secret to occurs in a log
\* line, in an argument of the approval call, in the config file, in a text
\* on its way to the file, in the policy lists, in the URL or the body of a
\* forwarded request or in the text of a response
C5_RealSecretConfined ==
  \A real \in RealSecrets :
    /\ ~Includes(disk, real)
    /\ ~ListsShow(config, real)
    /\ \A i \in Slots :
         /\ \A n \in DOMAIN requests[i].log : ~Includes(requests[i].log[n], real)
         /\ ~Includes(requests[i].call.host, real)
         /\ ~Includes(requests[i].call.path, real)
         /\ ~OptionsShow(requests[i].call.patternOptions, real)
         /\ ~Includes(requests[i].write, real)
         /\ ~Includes(requests[i].fetch.url.pathname, real)
         /\ ~Includes(requests[i].fetch.url.search, real)
         /\ ~Includes(requests[i].fetch.body, real)
         /\ ~Includes(requests[i].text, real)

\* A request went through an approval call and a write of the config file
\* and is on its way upstream with the real secret in its header
C5_Witness ==
  \E i \in Slots :
    /\ requests[i].call.called
    /\ requests[i].saved = 1
    /\ disk = requests[i].write
    /\ requests[i].fetch.called
    /\ Includes(requests[i].fetch.headers["authorization"], <<"R", "L">>)
    /\ Len(requests[i].log) >= 3

\* The decision of slot i names one pattern (every HTTP decision, and a
\* GraphQL decision on one field)
SinglePattern(i) ==
  requests[i].flow = "http" \/ Len(requests[i].needsApproval) = 1

\* C6: a request decided allow-forever(p) is on its way upstream or answered
\* by the upstream only with p in the grants of its secret and with every
\* write of the config file its handler started completed; a request
\* decided reject-forever(p) has its response only with p in the rejections
\* of its secret, is never forwarded, and has the 403 of a permanent
\* rejection only with every write its handler started completed
C6_RecordedBeforeResponse ==
  \A i \in Slots :
    /\ (requests[i].approval.type = "allow-forever" /\ SinglePattern(i)
        /\ requests[i].fetch.called) =>
         /\ ListIncludes(SecretOf(config, requests[i]).grants,
                         requests[i].approval.pattern)
         /\ requests[i].saved = requests[i].writes
    /\ (requests[i].approval.type = "reject-forever" /\ SinglePattern(i)) =>
         /\ ~requests[i].fetch.called
         /\ requests[i].pc = "done" =>
              /\ requests[i].status = 403
              /\ ListIncludes(SecretOf(config, requests[i]).rejections,
                              requests[i].approval.pattern)
              /\ requests[i].text = <<"Forbidden - Request permanently rejected">> =>
                   requests[i].saved = requests[i].writes

\* One request was answered by the upstream after allow-forever and the
\* completed write of its pattern, another was answered 403 after
\* reject-forever and the completed write of its pattern
C6_Witness ==
  \E i, j \in Slots :
    /\ requests[i].approval.type = "allow-forever"
    /\ requests[i].status = 200 /\ requests[i].saved = 1
    /\ ListIncludes(config[ConfiguredHost].secrets[1].grants,
                    requests[i].approval.pattern)
    /\ requests[j].approval.type = "reject-forever"
    /\ requests[j].status = 403 /\ requests[j].saved = 1
    /\ ListIncludes(config[ConfiguredHost].secrets[1].rejections,
                    requests[j].approval.pattern)

\* C7: the step that resolves an approval with allow-once puts the request
\* on its way upstream with the real secret in place of the fake one, the
\* step that resolves it with reject-once answers 403 without a forward, and
\* both leave the config (grants and rejections) and the config file as they
\* were and start no write
C7_OnceNotStored ==
  [][\A i \in Slots :
       (Resolves(i) /\ requests'[i].approval.type \in {"allow-once", "reject-once"}) =>
         /\ config' = config
         /\ disk' = disk
         /\ requests'[i].writes = 0
         /\ requests'[i].pc # "saving"
         /\ requests'[i].approval.type = "allow-once" =>
              /\ requests'[i].pc = "fetching"
              /\ requests'[i].fetch.called
              /\ requests'[i].fetch.headers =
                   [k \in DOMAIN Req(i).headers |->
                      Spliced(Req(i).headers[k], FakeOf(i), RealOf(i))]
         /\ requests'[i].approval.type = "reject-once" =>
              /\ requests'[i].pc = "done"
              /\ requests'[i].status = 403
              /\ ~requests'[i].fetch.called]_vars

\* One request was answered by the upstream after allow-once, another was
\* answered 403 after reject-once, and the policy is the one of the start
C7_Witness ==
  \E i, j \in Slots :
    /\ requests[i].approval.type = "allow-once" /\ requests[i].status = 200
    /\ requests[j].approval.type = "reject-once" /\ requests[j].status = 403
    /\ config = InitialConfig
    /\ disk = ConfigText(InitialConfig)

\* No pattern occurs twice in the list
NoDuplicates(list) ==
  \A a, b \in DOMAIN list : a # b => list[a] # list[b]

\* The list is as it was, or has one pattern more at its end that it did not
\* hold before
SameOrAppended(before, after) ==
  \/ after = before
  \/ /\ Len(after) = Len(before) + 1
     /\ SubSeq(after, 1, Len(before)) = before
     /\ ~ListIncludes(before, after[Len(after)])

\* The pattern the forever decision of slot i adds is in the list already
AlreadyPresent(i) ==
  \/ /\ requests'[i].approval.type = "allow-forever"
     /\ ListIncludes(SecretOf(config, requests[i]).grants,
                     requests'[i].approval.pattern)
  \/ /\ requests'[i].approval.type = "reject-forever"
     /\ ListIncludes(SecretOf(config, requests[i]).rejections,
                     requests'[i].approval.pattern)

\* C8: no grants list and no rejections list ever holds a pattern twice;
\* every step leaves each list as it was or appends one pattern the list did
\* not hold; and the step that resolves an approval with a forever decision
\* on a pattern already in its list leaves the config as it was and starts
\* no write of the config file
C8_IdempotentWrites ==
  [][/\ \A s \in DOMAIN config[ConfiguredHost].secrets :
          /\ NoDuplicates(config[ConfiguredHost].secrets[s].grants)
          /\ NoDuplicates(config'[ConfiguredHost].secrets[s].grants)
          /\ NoDuplicates(config[ConfiguredHost].secrets[s].rejections)
          /\ NoDuplicates(config'[ConfiguredHost].secrets[s].rejections)
          /\ SameOrAppended(config[ConfiguredHost].secrets[s].grants,
                            config'[ConfiguredHost].secrets[s].grants)
          /\ SameOrAppended(config[ConfiguredHost].secrets[s].rejections,
                            config'[ConfiguredHost].secrets[s].rejections)
     /\ \A i \in Slots :
          (Resolves(i) /\ SinglePattern(i) /\ AlreadyPresent(i)) =>
            /\ config' = config
            /\ requests'[i].writes = 0
            /\ requests'[i].pc # "saving"]_vars

\* A request decided allow-forever on a pattern that an earlier decision had
\* added is on its way upstream without a write of its own, and the pattern
\* is in the grants once
C8_Witness ==
  \E i \in Slots :
    /\ requests[i].approval.type = "allow-forever"
    /\ requests[i].fetch.called
    /\ requests[i].writes = 0
    /\ Len(config[ConfiguredHost].secrets[1].grants) = 1
    /\ config[ConfiguredHost].secrets[1].grants[1] = requests[i].approval.pattern

\* Some pattern of the list matches the key
SomeMatch(list, key) ==
  \E n \in DOMAIN list : matchesPattern(list[n], key) = T

\* C1: the step in which a request arrives that carries a fake secret and
\* has a key that matches a pattern in the rejections of that secret answers
\* it 403, with no approval call and no forward
C1_RejectionPrecedence ==
  [][\A i \in Slots :
       (/\ Arrives(i)
        /\ requests'[i].secret # 0
        /\ \E k \in DOMAIN requests'[i].keys :
             SomeMatch(SecretOf(config, requests'[i]).rejections,
                       requests'[i].keys[k])) =>
         /\ requests'[i].pc = "done"
         /\ requests'[i].status = 403
         /\ ~requests'[i].call.called
         /\ ~requests'[i].fetch.called]_vars

\* The handler of slot i met one of the uncertainties: no approval handler,
\* a request the normalizer does not accept, an Error thrown by a lookup
\* (the unknown variable of a pattern), an approval that failed
Uncertain(i) ==
  requests[i].error \in {"noHandler", "parse", "uncaught", "approval"}

\* C2: a request that carries a fake secret is on its way upstream or was
\* answered by it only if the approval was resolved allow-once or
\* allow-forever or a grant of its secret matches each of its keys; and a
\* request that carries a fake secret and met an
\* uncertainty is answered 400 or 403 and never forwarded
C2_FailClosed ==
  \A i \in Slots :
    requests[i].secret # 0 =>
      /\ requests[i].fetch.called =>
           \/ requests[i].approval.type \in {"allow-once", "allow-forever"}
           \/ \A k \in DOMAIN requests[i].keys :
                SomeMatch(SecretOf(config, requests[i]).grants,
                          requests[i].keys[k])
      /\ Uncertain(i) =>
           /\ requests[i].pc = "done"
           /\ requests[i].status \in {400, 403}
           /\ ~requests[i].fetch.called

\* What the normalizer returns for the request of slot i
ParsedOf(i) ==
  IF Req(i).method = "GET"
  THEN parseGraphQLFromSearchParams(SearchParams(Req(i).url.search))
  ELSE IF Req(i).body # NULL THEN parseGraphQLRequest(Req(i).body)
  ELSE ParsedNull

\* C9: a request to a GraphQL endpoint that carries a fake secret and for
\* which the normalizer gives no result, or a result without fields, is
\* answered 400 with no rejection or grant lookup, no approval call and no
\* forward
C9_ParseFailure400 ==
  \A i \in Slots :
    (/\ requests[i].flow = "graphql"
     /\ \/ ~ParsedOf(i).ok
        \/ ParsedOf(i).queries = <<>> /\ ParsedOf(i).mutations = <<>>) =>
      /\ requests[i].pc = "done"
      /\ requests[i].status = 400
      /\ ~requests[i].lookedUp
      /\ ~requests[i].call.called
      /\ ~requests[i].fetch.called

\* C10: the step in which a request arrives that carries a fake secret, has
\* keys none of which matches a rejection and one of which matches no grant,
\* while no approval handler is registered, answers it 403 with no forward
\* and leaves the config and the config file as they were
C10_NoHandler403 ==
  [][\A i \in Slots :
       (/\ Arrives(i)
        /\ requestApprovalFn = "null"
        /\ requests'[i].secret # 0
        /\ requests'[i].keys # <<>>
        /\ \A k \in DOMAIN requests'[i].keys :
             ~SomeMatch(SecretOf(config, requests'[i]).rejections,
                        requests'[i].keys[k])
        /\ \E k \in DOMAIN requests'[i].keys :
             ~SomeMatch(SecretOf(config, requests'[i]).grants,
                        requests'[i].keys[k])) =>
         /\ requests'[i].pc = "done"
         /\ requests'[i].status = 403
         /\ ~requests'[i].fetch.called
         /\ config' = config
         /\ disk' = disk]_vars

\* The approval promise of slot i rejects in this step
Rejects(i) ==
  /\ requests[i].pc = "approval"
  /\ requests'[i].pc # "approval"
  /\ requests'[i].approval.type = "none"

\* C11: the step in which the approval promise of a request rejects answers
\* the request 403 without a forward and leaves the config (grants and
\* rejections of every secret) and the config file as they were
C11_ApprovalError403 ==
  [][\A i \in Slots :
       Rejects(i) =>
         /\ requests'[i].pc = "done"
         /\ requests'[i].status = 403
         /\ ~requests'[i].fetch.called
         /\ requests'[i].writes = 0
         /\ config' = config
         /\ disk' = disk]_vars

\* A request whose approval call was made and failed has been answered 403
\* "Approval timeout" without a forward
C11_Witness ==
  \E i \in Slots :
    /\ requests[i].call.called
    /\ requests[i].approval.type = "none"
    /\ requests[i].pc = "done"
    /\ requests[i].status = 403
    /\ requests[i].text = <<"Forbidden - Approval timeout">>
    /\ ~requests[i].fetch.called

\* Plain HTTP traffic with a timer that fires when its approval stays open
SpecHttpTimer ==
  InitHttp /\ [][Next]_vars /\ \A i \in Slots : WF_vars(ApprovalTimeout(i))

\* The timer of the approval of slot i fires in this step
TimesOut(i) ==
  /\ requests[i].pc = "approval"
  /\ ListIncludes(requests'[i].log, <<"Request", SP, "timed out">>)

\* C12: the step in which the timer of an approval fires resolves the
\* approval with reject-once: the request is answered 403 without a forward,
\* no write is started and the config and the config file stay as they
\* were; and no request waits for its approval forever
C12_TimeoutRejectsOnce ==
  /\ [][\A i \in Slots :
          TimesOut(i) =>
            /\ requests'[i].approval.type = "reject-once"
            /\ requests'[i].pc = "done"
            /\ requests'[i].status = 403
            /\ ~requests'[i].fetch.called
            /\ requests'[i].writes = 0
            /\ config' = config
            /\ disk' = disk]_vars
  /\ \A i \in Slots :
       requests[i].pc = "approval" ~> requests[i].pc # "approval"

\* A request whose approval timed out has been answered 403 "Request
\* rejected" while the policy is the one of the start
C12_Witness ==
  \E i \in Slots :
    /\ ListIncludes(requests[i].log, <<"Request", SP, "timed out">>)
    /\ requests[i].approval.type = "reject-once"
    /\ requests[i].status = 403
    /\ requests[i].text = <<"Forbidden - Request rejected">>
    /\ config = InitialConfig

\* The environment has no value for the secret that slot i was matched to
\* (after this step)
NoValue(i) ==
  /\ requests'[i].secret # 0
  /\ getRealSecret(SecretOf(config, requests'[i])) = NULL

\* This step takes slot i to forwarding with substitution: it arrives with a
\* key that no rejection and some grant matches, or its approval is resolved
\* allow-once, or allow-forever with nothing left to write, or the write
\* after allow-forever completes
ReachesForward(i) ==
  \/ /\ Arrives(i)
     /\ requests'[i].flow = "http"
     /\ ~SomeMatch(SecretOf(config, requests'[i]).rejections, requests'[i].keys[1])
     /\ SomeMatch(SecretOf(config, requests'[i]).grants, requests'[i].keys[1])
  \/ /\ Resolves(i)
     /\ requests'[i].approval.type = "allow-once"
  \/ /\ Resolves(i)
     /\ requests'[i].approval.type = "allow-forever"
     /\ requests'[i].pc # "saving"
  \/ /\ requests[i].pc = "saving"
     /\ requests[i].approval.type = "allow-forever"
     /\ requests'[i].saved = requests[i].saved + 1
     /\ requests'[i].pc # "saving"

\* C13: a request matched to a secret whose environment variable has no
\* value never has an upstream request made for it, and every step that
\* takes it to forwarding with substitution (grant match, allow-once,
\* allow-forever) answers it 500
C13_NoRealSecret500 ==
  [][\A i \in Slots :
       NoValue(i) =>
         /\ ~requests'[i].fetch.called
         /\ ReachesForward(i) =>
              /\ requests'[i].pc = "done"
              /\ requests'[i].status = 500
              /\ requests'[i].text =
                   <<"Internal Server Error - No real secret configured">>]_vars

\* With the variable unset, one request was answered 500 after allow-forever
\* and the completed write of its pattern, another after allow-once
C13_Witness ==
  \E i, j \in Slots :
    /\ requests[i].approval.type = "allow-forever"
    /\ requests[i].saved = 1
    /\ requests[i].status = 500
    /\ requests[j].approval.type = "allow-once"
    /\ requests[j].status = 500
    /\ getRealSecret(SecretOf(config, requests[i])) = NULL
    /\ ~requests[i].fetch.called /\ ~requests[j].fetch.called

\* C14: no request has more than one upstream fetch made for it, and the
\* step that ends a fetch answers the request: with the upstream's response,
\* or, when the fetch failed, with 502 and the text of the error; no second
\* fetch follows
C14_NoRetry ==
  [][\A i \in Slots :
       /\ requests'[i].fetches <= 1
       /\ (requests[i].pc = "fetching" /\ requests'[i] # requests[i]) =>
            /\ requests'[i].pc = "done"
            /\ requests'[i].fetches = 1
            /\ requests'[i].fetch = requests[i].fetch
            /\ \/ /\ requests'[i].status = 200
                  /\ requests'[i].error = requests[i].error
               \/ /\ requests'[i].status = 502
                  /\ requests'[i].text = <<"Bad Gateway:", SP, "Error">>
                  /\ requests'[i].error = "fetch"]_vars

\* One request without a secret and one with a substituted secret were each
\* answered 502 after their single fetch failed
C14_Witness ==
  \E i, j \in Slots :
    /\ requests[i].status = 502 /\ requests[i].fetches = 1 /\ requests[i].secret = 0
    /\ requests[j].status = 502 /\ requests[j].fetches = 1 /\ requests[j].secret # 0

\* The keys of the sequence that no grant of the list matches, in order
Ungranted(grants, keys) ==
  LET NoGrant(key) == ~SomeMatch(grants, key)
  IN SelectSeq(keys, NoGrant)

\* The text an approval call shows for the keys: each without its "GRAPHQL "
\* prefix, joined by "; "
Described(keys) ==
  JoinWith([n \in DOMAIN keys |-> SubSeq(keys[n], 3, Len(keys[n]))], <<";", SP>>)

\* Some lookup of a key of the request meets a pattern with a variable
\* other than $ANY
UnknownVariable(cfg, r) ==
  \E k \in DOMAIN r.keys :
    \E pattern \in Range(SecretOf(cfg, r).grants) \cup Range(SecretOf(cfg, r).rejections) :
      matchesPattern(pattern, r.keys[k]) = THROW

\* What C15 says of the step in which slot i starts to handle a GraphQL
\* request none of whose keys matches a rejection
GrantPartition(i) ==
  IF Ungranted(SecretOf(config, requests'[i]).grants, requests'[i].keys) = <<>>
  THEN /\ requests'[i].pc = "fetching"
       /\ ~requests'[i].call.called
       /\ requests'[i].fetch.headers =
            [k \in DOMAIN loadRequest(requests'[i].input).headers |->
               Spliced(loadRequest(requests'[i].input).headers[k],
                       SecretOf(config, requests'[i]).secret,
                       getRealSecret(SecretOf(config, requests'[i])))]
  ELSE /\ [n \in DOMAIN requests'[i].needsApproval |-> requests'[i].needsApproval[n].key]
            = Ungranted(SecretOf(config, requests'[i]).grants, requests'[i].keys)
       /\ ~requests'[i].fetch.called
       /\ requestApprovalFn = "transport" =>
            /\ requests'[i].call.called
            /\ requests'[i].call.method = "GRAPHQL"
            /\ requests'[i].call.path =
                 Described(Ungranted(SecretOf(config, requests'[i]).grants,
                                     requests'[i].keys))

\* Slot i starts to handle a GraphQL request that carries a fake secret and
\* has no key that matches a rejection
PassesRejections(i) ==
  /\ Arrives(i)
  /\ requests'[i].secret # 0
  /\ requests'[i].flow = "graphql"
  /\ requests'[i].lookedUp
  /\ \A k \in DOMAIN requests'[i].keys :
       ~SomeMatch(SecretOf(config, requests'[i]).rejections, requests'[i].keys[k])

\* C15: in the step in which a GraphQL request arrives none of whose keys
\* matches a rejection, the keys that need approval are the keys that no
\* grant matches, in order; the approval call names those keys and no other;
\* and when a grant matches every key the request is forwarded with
\* substitution and no approval call is made
C15_GrantPartition ==
  [][\A i \in Slots : PassesRejections(i) => GrantPartition(i)]_vars

\* The partition of C15 for the requests whose lookups meet no pattern with
\* a variable other than $ANY
C15_PartitionWithoutUnknownVariable ==
  [][\A i \in Slots :
       (PassesRejections(i) /\ ~UnknownVariable(config, requests'[i])) =>
         GrantPartition(i)]_vars

\* A batch with a granted and an ungranted field waits for an approval that
\* names the ungranted field only
C15_Witness ==
  \E i \in Slots :
    /\ requests[i].pc = "approval"
    /\ Len(requests[i].keys) = 2
    /\ Len(requests[i].needsApproval) = 1
    /\ requests[i].call.path = <<"query", SP, "user">>
    /\ SomeMatch(SecretOf(config, requests[i]).grants, requests[i].keys[2])

\* The approval calls of a request that the transport has not resolved yet
Outstanding(r) ==
  IF r.pc = "approval" /\ r.call.called THEN <<r.call>> ELSE <<>>

\* C16: while a GraphQL request with more than one field in need of approval
\* waits, one approval call per such field is outstanding, and the call of a
\* field names that field and carries the pattern options of that field
C16_ParallelApprovals ==
  \A i \in Slots :
    (requests[i].pc = "approval" /\ Len(requests[i].needsApproval) > 1) =>
      /\ Len(Outstanding(requests[i])) = Len(requests[i].needsApproval)
      /\ \A n \in DOMAIN requests[i].needsApproval :
           /\ n \in DOMAIN Outstanding(requests[i])
           /\ Outstanding(requests[i])[n].path =
                Described(<<requests[i].needsApproval[n].key>>)
           /\ Outstanding(requests[i])[n].patternOptions =
                generateGraphQLFieldPatternOptions(
                  requests[i].needsApproval[n].opType,
                  requests[i].needsApproval[n].field)

\* C17: once an approval of a GraphQL request with more than one field in
\* need of approval has returned reject-once or reject-forever, no approval
\* call of the request is outstanding, nothing is forwarded, the response is
\* 403, and after reject-forever with pattern p the response finds p in the
\* rejections of the secret unless a write of the config file failed
C17_FirstRejectionCancels ==
  \A i \in Slots :
    (/\ Len(requests[i].needsApproval) > 1
     /\ requests[i].approval.type \in {"reject-once", "reject-forever"}) =>
      /\ Outstanding(requests[i]) = <<>>
      /\ ~requests[i].fetch.called
      /\ requests[i].pc = "done" =>
           /\ requests[i].status = 403
           /\ (requests[i].approval.type = "reject-forever"
               /\ requests[i].error = "none") =>
                ListIncludes(SecretOf(config, requests[i]).rejections,
                             requests[i].approval.pattern)

\* C18: a GraphQL request with more than one field in need of approval is
\* forwarded only after a decision allow-once or allow-forever; a step of
\* such a request adds no pattern to the grants of its secret but the
\* pattern p of its allow-forever decision, and when the request is
\* forwarded after allow-forever with pattern p the grants hold p
C18_AllAllowedExactGrants ==
  [][\A i \in Slots :
       (Len(requests'[i].needsApproval) > 1 /\ requests'[i] # requests[i]) =>
         /\ requests'[i].fetch.called =>
              requests'[i].approval.type \in {"allow-once", "allow-forever"}
         /\ Range(SecretOf(config', requests'[i]).grants)
              \ Range(SecretOf(config, requests'[i]).grants)
              \subseteq (IF requests'[i].approval.type = "allow-forever"
                         THEN {requests'[i].approval.pattern} ELSE {})
         /\ (requests'[i].fetch.called
             /\ requests'[i].approval.type = "allow-forever") =>
              ListIncludes(SecretOf(config', requests'[i]).grants,
                           requests'[i].approval.pattern)]_vars

\* C19: in the step in which the client of a request that waits for
\* approval closes its connection, the approval calls of the request stop
\* being outstanding, and no request whose client is gone waits for approval
C19_DisconnectCancels ==
  [][\A i \in Slots :
       /\ (requests[i].pc = "approval" /\ requests[i].connected
           /\ ~requests'[i].connected) => Outstanding(requests'[i]) = <<>>
       /\ ~requests'[i].connected => requests'[i].pc # "approval"]_vars

\* The pattern is an HTTP pattern: its method is not GRAPHQL
HttpPattern(pattern) == ~StartsWith(pattern, <<"GRAPHQL", SP>>)

\* The pattern holds a symbol that Bun.Glob does not read as itself
GlobSymbols(pattern) ==
  Range(pattern) \cap {"*", "?", "[", "]", "{", "}", "!", "\\"} # {}

\* The field expression of a GraphQL pattern or key, parsed
FieldOf(key) == parseFieldString(SubSeq(key, 5, Len(key)))

\* Two GraphQL keys of one operation type whose field expressions parse to
\* the same name and the same number of arguments, every argument name of
\* the pattern being an argument name of the key
SameShape(pattern, requestKey) ==
  /\ StartsWith(requestKey, <<"GRAPHQL", SP>>)
  /\ Len(pattern) >= 5 /\ Len(requestKey) >= 5
  /\ pattern[3] = requestKey[3]
  /\ FieldOf(pattern).ok /\ FieldOf(requestKey).ok
  /\ FieldOf(pattern).node.name = FieldOf(requestKey).node.name
  /\ Len(FieldOf(pattern).node.arguments) = Len(FieldOf(requestKey).node.arguments)
  /\ \A a \in DOMAIN FieldOf(pattern).node.arguments :
       \E b \in DOMAIN FieldOf(requestKey).node.arguments :
         FieldOf(pattern).node.arguments[a].name
           = FieldOf(requestKey).node.arguments[b].name

MethodOf(key) == Before(key, IndexOf(key, SP))
RestOf(key) == After(key, IndexOf(key, SP))

\* The path segments of an HTTP pattern or key: the texts between the "/"
SegmentsOf(key) == Split(RestOf(key), "/")

\* An HTTP pattern "METHOD path" whose path is not "*" alone, probed with a
\* key "METHOD path"
SegmentProbe ==
  /\ probe.result \in {T, F, THROW}
  /\ HttpPattern(probe.pattern) /\ HttpPattern(probe.requestKey)
  /\ IndexOf(probe.pattern, SP) > 0 /\ IndexOf(probe.requestKey, SP) > 0
  /\ RestOf(probe.pattern) # <<"*">>

\* The methods are equal, the paths have the same number of segments and
\* every pattern segment other than "*" equals the segment of the key at its
\* position
SegmentwiseEqual(pattern, requestKey) ==
  /\ MethodOf(pattern) = MethodOf(requestKey)
  /\ Len(SegmentsOf(pattern)) = Len(SegmentsOf(requestKey))
  /\ \A n \in DOMAIN SegmentsOf(pattern) :
       \/ SegmentsOf(pattern)[n] = <<"*">>
       \/ SegmentsOf(pattern)[n] = SegmentsOf(requestKey)[n]

\* Every segment of the pattern is "*" or holds no symbol that Bun.Glob
\* reads as other than itself
PlainSegments(pattern) ==
  \A n \in DOMAIN SegmentsOf(pattern) :
    \/ SegmentsOf(pattern)[n] = <<"*">>
    \/ ~GlobSymbols(SegmentsOf(pattern)[n])

\* C21: an HTTP pattern with k segments matches a request key if and only
\* if the methods are equal, the path of the key has k segments and every
\* pattern segment other than "*" equals the segment of the key at the same
\* position
C21_SingleSegmentWildcard ==
  SegmentProbe =>
    (probe.result = T <=> SegmentwiseEqual(probe.pattern, probe.requestKey))

\* The statement of C21 for the patterns each of whose segments is "*" or
\* free of glob symbols
C21_PlainSegmentWildcard ==
  (SegmentProbe /\ PlainSegments(probe.pattern)) =>
    (probe.result = T <=> SegmentwiseEqual(probe.pattern, probe.requestKey))

\* C22: "METHOD *" matches a request key if and only if the key has that
\* method; "GRAPHQL query *" matches exactly the keys that start with
\* "GRAPHQL query " and "GRAPHQL mutation *" exactly those that start with
\* "GRAPHQL mutation "
C22_CatchAll ==
  (probe.result \in {T, F, THROW} /\ IndexOf(probe.requestKey, SP) > 0) =>
    /\ (Len(probe.pattern) = 3 /\ RestOf(probe.pattern) = <<"*">>) =>
         (probe.result = T <=> MethodOf(probe.requestKey) = MethodOf(probe.pattern))
    /\ \A opType \in {"query", "mutation"} :
         probe.pattern = GraphQLKey(opType, <<"*">>) =>
           (probe.result = T <=>
              StartsWith(probe.requestKey, <<"GRAPHQL", SP, opType, SP>>))

\* "GET *" has matched a key of three segments
C22_Witness ==
  /\ probe.pattern = <<"GET", SP, "*">>
  /\ probe.requestKey = <<"GET", SP, "/", "a", "/", "b", "/", "c">>
  /\ probe.result = T

\* The index of the request argument (or object field) that the pattern's
\* entry is held against: any entry of that name, or the first of that name
Counterparts(rfs, name, first) ==
  {i \in DOMAIN rfs :
     /\ rfs[i].name = name
     /\ first => \A j \in 1..(i - 1) : rfs[j].name # name}

RECURSIVE ValueMatches(_, _, _)
\* The rule of C23 for two values: $ANY matches any value, scalars match if
\* and only if kind and value are equal, lists if and only if the lengths
\* are equal and the elements match pairwise, objects if and only if they
\* have the same number of fields and every pattern field has a matching
\* request field of the same name
ValueMatches(p, r, first) ==
  IF p.kind = "Variable" THEN p.value = <<"ANY">>
  ELSE IF p.kind = "ListValue"
  THEN /\ r.kind = "ListValue"
       /\ Len(p.values) = Len(r.values)
       /\ \A n \in DOMAIN p.values : ValueMatches(p.values[n], r.values[n], first)
  ELSE IF p.kind = "ObjectValue"
  THEN /\ r.kind = "ObjectValue"
       /\ Len(p.fields) = Len(r.fields)
       /\ \A n \in DOMAIN p.fields :
            \E i \in Counterparts(r.fields, p.fields[n].name, first) :
              ValueMatches(p.fields[n].value, r.fields[i].value, first)
  ELSE p.kind = r.kind /\ p.value = r.value

\* The rule of C23 for a GraphQL pattern and a GraphQL key
FieldMatches(pattern, requestKey, first) ==
  /\ pattern[3] = requestKey[3]
  /\ FieldOf(pattern).ok /\ FieldOf(requestKey).ok
  /\ FieldOf(pattern).node.name = FieldOf(requestKey).node.name
  /\ Len(FieldOf(pattern).node.arguments) = Len(FieldOf(requestKey).node.arguments)
  /\ \A n \in DOMAIN FieldOf(pattern).node.arguments :
       \E i \in Counterparts(FieldOf(requestKey).node.arguments,
                             FieldOf(pattern).node.arguments[n].name, first) :
         ValueMatches(FieldOf(pattern).node.arguments[n].value,
                      FieldOf(requestKey).node.arguments[i].value, first)

\* A GraphQL pattern with a field expression, probed with a GraphQL request
\* key: a key with a field expression and no variable
FieldProbe ==
  /\ probe.result \in {T, F, THROW}
  /\ StartsWith(probe.pattern, <<"GRAPHQL", SP>>)
  /\ StartsWith(probe.requestKey, <<"GRAPHQL", SP>>)
  /\ Len(probe.pattern) >= 5 /\ Len(probe.requestKey) >= 5
  /\ probe.pattern[5] # "*"
  /\ "$" \notin Range(probe.requestKey)

OtherVariable(pattern) ==
  \E n \in 1..(Len(pattern) - 1) : pattern[n] = "$" /\ pattern[n + 1] # "ANY"

\* A GraphQL pattern with a variable other than $ANY, probed with a GraphQL
\* request key: a key with a field expression and no variable
VariableProbe ==
  /\ probe.result \in {T, F, THROW}
  /\ StartsWith(probe.pattern, <<"GRAPHQL", SP>>)
  /\ OtherVariable(probe.pattern)
  /\ StartsWith(probe.requestKey, <<"GRAPHQL", SP>>)
  /\ Len(probe.requestKey) >= 5
  /\ "$" \notin Range(probe.requestKey)

\* C24: matching a GraphQL pattern that holds a variable other than $ANY
\* against a request key raises an error
C24_UnknownVariableRaises ==
  VariableProbe => probe.result = THROW

\* The second half of C24: such a pattern never matches a request key
C24_UnknownVariableNeverMatches ==
  VariableProbe => probe.result # T

\* What handleRequest makes of the request of slot i without its query
\* string, the config and the handler being those of the moment
Bare(i) ==
  handleRequest(config, requestApprovalFn,
                [requests'[i].input EXCEPT !.url.search = <<>>])

\* C25: in the step in which an HTTP request with a credential arrives, its
\* request key is the method and the path without the query string; key,
\* lookups, outcome and suggested patterns are those of the same request
\* without its query string; and no suggested pattern holds a "?"
C25_QueryNotInKey ==
  [][\A i \in Slots :
       (Arrives(i) /\ requests'[i].flow = "http") =>
         /\ requests'[i].keys =
              <<<<requests'[i].input.method, SP>> \o requests'[i].input.url.pathname>>
         /\ requests'[i].keys = Bare(i).keys
         /\ requests'[i].pc = Bare(i).pc
         /\ requests'[i].status = Bare(i).status
         /\ requests'[i].text = Bare(i).text
         /\ requests'[i].fetch.called = Bare(i).fetch.called
         /\ requests'[i].call.called = Bare(i).call.called
         /\ requests'[i].call.patternOptions = Bare(i).call.patternOptions
         /\ \A n \in DOMAIN requests'[i].call.patternOptions :
              "?" \notin Range(requests'[i].call.patternOptions[n].pattern)]_vars

\* Two requests that differ in the query string only wait for approval with
\* the same key and the same suggested patterns
C25_Witness ==
  \E i, j \in Slots :
    /\ requests[i].pc = "approval" /\ requests[j].pc = "approval"
    /\ requests[i].input.url.search = <<>>
    /\ requests[j].input.url.search = <<"?", "q", "=", "1">>
    /\ requests[i].input.url.pathname = requests[j].input.url.pathname
    /\ requests[i].keys = requests[j].keys
    /\ requests[i].call.patternOptions = requests[j].call.patternOptions
    /\ Len(requests[i].call.patternOptions) = 3

\* No two fields of the list have the same JSON serialization
DistinctFields(fields) ==
  \A m, n \in DOMAIN fields : FieldKey(fields[m]) = FieldKey(fields[n]) => m = n

\* C26: for every request to a GraphQL endpoint that the normalizer
\* accepts, by POST or by GET, the queries list and the mutations list
\* of the result hold no two fields with the same serialization
C26_Deduplicated ==
  \A i \in Slots :
    (requests[i].flow = "graphql" /\ ParsedOf(i).ok) =>
      /\ DistinctFields(ParsedOf(i).queries)
      /\ DistinctFields(ParsedOf(i).mutations)

\* The lists of C26 for the requests sent with a body
C26_BodyDeduplicated ==
  \A i \in Slots :
    (requests[i].flow = "graphql" /\ ParsedOf(i).ok /\ Req(i).method # "GET") =>
      /\ DistinctFields(ParsedOf(i).queries)
      /\ DistinctFields(ParsedOf(i).mutations)

RECURSIVE Ascending(_)
\* The numbers of a set, the least first
Ascending(S) ==
  IF S = {} THEN <<>>
  ELSE LET least == CHOOSE m \in S : \A x \in S : m <= x
       IN <<least>> \o Ascending(S \ {least})

RECURSIVE Descending(_)
\* The numbers of a set, the greatest first
Descending(S) ==
  IF S = {} THEN <<>>
  ELSE LET greatest == CHOOSE m \in S : \A x \in S : m >= x
       IN <<greatest>> \o Descending(S \ {greatest})

\* The patterns of a list of options
PatternsOf(options) == [n \in DOMAIN options |-> options[n].pattern]

\* The template the handler passes for an HTTP subject
TemplateOf(subject) == matchPathToTemplate(<<"h">>, subject.op, subject.path)

\* The parameter positions of a template, in index order
ParameterPositions(template) ==
  IF template.found
  THEN Ascending({k \in DOMAIN template.segments : template.segments[k].isParameter})
  ELSE <<>>

\* The pattern of an HTTP subject in which the segments at the positions
\* P[i..] are "*" and every other segment is the segment of the path
StarredFrom(subject, P, i) ==
  LET segments == NonEmpty(Split(PathWithoutQuery(subject.path), "/"))
  IN <<subject.op, SP, "/">>
     \o Join([k \in DOMAIN segments |->
                IF \E j \in i..Len(P) : P[j] = k THEN <<"*">> ELSE segments[k]],
             "/")

\* The list C27 describes: the exact pattern, the starred patterns from the
\* last parameter position down to the first without those already in the
\* list, and "METHOD *"
ExpectedHttp(subject) ==
  LET P == ParameterPositions(TemplateOf(subject))
      exact == <<subject.op, SP>> \o PathWithoutQuery(subject.path)
      kept == {i \in DOMAIN P :
                 /\ StarredFrom(subject, P, i) # exact
                 /\ \A j \in (i + 1)..Len(P) :
                      StarredFrom(subject, P, j) # StarredFrom(subject, P, i)}
      order == Descending(kept)
  IN <<exact>>
     \o [m \in DOMAIN order |-> StarredFrom(subject, P, order[m])]
     \o <<<<subject.op, SP, "*">>>>

\* C27: the suggestions of an HTTP request are, in this order, the exact
\* pattern "METHOD <path without query>", then for the parameter positions
\* P of its template and i from the last down to the first the pattern with
\* the positions P[i..] replaced by "*" and the other segments as they are
\* in the path, without any pattern already in the list, and last "METHOD *"
C27_HttpSuggestions ==
  (probe.done /\ probe.subject.kind = "http") =>
    PatternsOf(probe.options) = ExpectedHttp(probe.subject)

\* The suggestions of a path with two parameter positions are built
C27_Witness ==
  /\ probe.done
  /\ probe.subject.kind = "http"
  /\ probe.subject.path = <<"/", "o", "/", "b", "/", "2">>
  /\ PatternsOf(probe.options) =
       << <<"POST", SP, "/", "o", "/", "b", "/", "2">>,
          <<"POST", SP, "/", "o", "/", "b", "/", "*">>,
          <<"POST", SP, "/", "*", "/", "b", "/", "*">>,
          <<"POST", SP, "*">> >>

\* The field with its arguments in order, "name: value" joined by ", ", the
\* values from position i on being $ANY; the name alone without arguments
AnyValuesFrom(field, i) ==
  IF field.args = <<>> THEN field.name
  ELSE field.name \o <<"(">>
       \o JoinWith([k \in DOMAIN field.args |->
                      field.args[k].name \o <<":", SP>>
                      \o (IF k >= i THEN <<"$", "ANY">>
                          ELSE serializeJsValue(field.args[k].value))],
                   <<",", SP>>)
       \o <<")">>

\* The list C28 describes for a field with n arguments: the exact pattern,
\* the patterns with the values of the arguments i..n set to $ANY for i from
\* n down to 1 without those already in the list, and "GRAPHQL opType *"
ExpectedGraphQL(subject) ==
  LET n == Len(subject.field.args)
      exact == AnyValuesFrom(subject.field, n + 1)
      kept == {i \in 1..n :
                 /\ AnyValuesFrom(subject.field, i) # exact
                 /\ \A j \in (i + 1)..n :
                      AnyValuesFrom(subject.field, j) # AnyValuesFrom(subject.field, i)}
      order == Descending(kept)
  IN <<GraphQLKey(subject.op, exact)>>
     \o [m \in DOMAIN order |->
           GraphQLKey(subject.op, AnyValuesFrom(subject.field, order[m]))]
     \o <<GraphQLKey(subject.op, <<"*">>)>>

\* C28: the suggestions of a GraphQL field with n arguments are, in this
\* order, the exact pattern "GRAPHQL opType field(args)", without
\* parentheses when n = 0; then for i from the last argument down to the
\* first the pattern in which the arguments from i on have the value $ANY
\* and the earlier ones their own values, without duplicates; and last
\* "GRAPHQL opType *"
C28_GraphQLSuggestions ==
  (probe.done /\ probe.subject.kind = "graphql") =>
    PatternsOf(probe.options) = ExpectedGraphQL(probe.subject)

\* The suggestions of a field with two arguments are built
C28_Witness ==
  /\ probe.done
  /\ probe.subject.kind = "graphql"
  /\ probe.subject.op = "mutation"
  /\ PatternsOf(probe.options) =
       << GraphQLKey("mutation", <<"user", "(", "a", ":", SP, "\"", "1", "\"", ",", SP,
                                   "b", ":", SP, "2", ")">>),
          GraphQLKey("mutation", <<"user", "(", "a", ":", SP, "\"", "1", "\"", ",", SP,
                                   "b", ":", SP, "$", "ANY", ")">>),
          GraphQLKey("mutation", <<"user", "(", "a", ":", SP, "$", "ANY", ",", SP,
                                   "b", ":", SP, "$", "ANY", ")">>),
          GraphQLKey("mutation", <<"*">>) >>

\* The request key has the method of an HTTP subject, or the operation type
\* of a GraphQL subject
SameClass(subject, requestKey) ==
  IF subject.kind = "http"
  THEN HttpPattern(requestKey) /\ MethodOf(requestKey) = <<subject.op>>
  ELSE StartsWith(requestKey, <<"GRAPHQL", SP, subject.op, SP>>)

\* A key that a pattern of the list matches is matched by every later
\* pattern of the list, and the last pattern matches every key of the
\* subject's method or operation type
Monotonic ==
  /\ \A m, n \in DOMAIN probe.matches :
       (m < n /\ probe.matches[m] = T) => probe.matches[n] = T
  /\ SameClass(probe.subject, probe.requestKey) =>
       probe.matches[Len(probe.matches)] = T

\* C29: in the ordered suggestion list every pattern matches the request
\* keys its predecessors match, and the last one matches every request key
\* of the same method (HTTP) or operation type (GraphQL)
C29_SuggestionMonotonicity == probe.done => Monotonic

\* The path of an HTTP subject, without its query string, is "/" and its
\* non-empty segments joined by "/": it has no doubled and no trailing slash
PlainPath(subject) ==
  PathWithoutQuery(subject.path)
    = <<"/">> \o Join(NonEmpty(Split(PathWithoutQuery(subject.path), "/")), "/")

\* The monotonicity of C29 for the GraphQL subjects and for the HTTP subjects
\* whose path has no doubled and no trailing slash
C29_PlainPathMonotonicity ==
  (probe.done /\ (probe.subject.kind = "http" => PlainPath(probe.subject))) =>
    Monotonic

\* The number of times the pattern occurs in the list
Occurrences(list, pattern) == Cardinality({k \in DOMAIN list : list[k] = pattern})

\* Slots i and j hold requests with one secret whose approvals were resolved
\* with a forever decision of the given type and with one pattern
SameForeverDecision(i, j, type) ==
  /\ i # j
  /\ requests[i].approval.type = type
  /\ requests[j].approval.type = type
  /\ requests[i].approval.pattern = requests[j].approval.pattern
  /\ SecretOf(config, requests[i]) = SecretOf(config, requests[j])

\* C30: when two requests in flight for one secret have both received a
\* forever decision with the same pattern, the grants list (for two
\* allow-forever) or the rejections list (for two reject-forever) of the
\* secret holds that pattern exactly once, whatever the order of their
\* addGrant or addRejection calls and of the writes they await
C30_RacingAddsOnce ==
  \A i, j \in Slots :
    /\ SameForeverDecision(i, j, "allow-forever") =>
         Occurrences(SecretOf(config, requests[i]).grants,
                     requests[i].approval.pattern) = 1
    /\ SameForeverDecision(i, j, "reject-forever") =>
         Occurrences(SecretOf(config, requests[i]).rejections,
                     requests[i].approval.pattern) = 1

\* Two requests were approved forever with one pattern: the first pushed it
\* and awaits its write, the second found it in the list and wrote nothing
C30_Witness ==
  \E i, j \in Slots :
    /\ SameForeverDecision(i, j, "allow-forever")
    /\ requests[i].pc = "saving"
    /\ requests[i].writes = 1
    /\ requests[j].writes = 0
    /\ requests[j].pc = "fetching"

\* The write slot i awaits completes in this step
WriteCompletes(i) ==
  /\ requests[i].pc = "saving"
  /\ requests'[i].pc # "saving"
  /\ requests'[i].error = "none"

\* No request in flight awaits a write or has seen one fail
WritesSettled ==
  \A j \in Slots : requests'[j].pc # "saving" /\ requests'[j].error = "none"

\* C31: writes of the config file do not overtake one another: a step that
\* completes a write and leaves no addGrant or addRejection call pending
\* leaves the file equal to the serialized in-memory config, which holds
\* every pattern that was added
C31_SingleWriter ==
  [][(\E i \in Slots : WriteCompletes(i)) /\ WritesSettled =>
       disk' = ConfigText(config')]_vars

\* The request of slot i, which carries a fake secret, is handed to fetch in
\* this step
ForwardedNow(i) ==
  /\ ~requests[i].fetch.called
  /\ requests'[i].fetch.called
  /\ requests'[i].secret # 0

\* C32: in the step that forwards a request carrying a fake secret no
\* pattern in the rejections of that secret matches a key of the request,
\* whatever was added to the rejections while the request waited for its
\* approval
C32_NoForwardPastRejection ==
  [][\A i \in Slots :
       ForwardedNow(i) =>
         \A k \in DOMAIN requests'[i].keys :
           ~SomeMatch(SecretOf(config', requests'[i]).rejections,
                      requests'[i].keys[k])]_vars

\* The forwards of C32 for the requests that are forwarded in the step in
\* which they arrive
C32_NoForwardPastRejectionOnArrival ==
  [][\A i \in Slots :
       (ForwardedNow(i) /\ Arrives(i)) =>
         \A k \in DOMAIN requests'[i].keys :
           ~SomeMatch(SecretOf(config', requests'[i]).rejections,
                      requests'[i].keys[k])]_vars

\* C34: every pattern of the suggestions built for a request matches the
\* request key of that request, also for a path with a trailing slash or an
\* empty segment
C34_SuggestionsCoverRequest ==
  (probe.done /\ probe.requestKey = SubjectKey(probe.subject)) =>
    \A n \in DOMAIN probe.matches : probe.matches[n] = T

\* The suggestions of C34 for the GraphQL fields and for the paths without
\* a doubled or trailing slash
C34_PlainPathSuggestionsCover ==
  (/\ probe.done
   /\ probe.requestKey = SubjectKey(probe.subject)
   /\ probe.subject.kind = "http" => PlainPath(probe.subject)) =>
    \A n \in DOMAIN probe.matches : probe.matches[n] = T

\* Slot i holds a request that was decided forever and whose handler is past
\* its addGrant or addRejection calls, and a request with the same method,
\* URL, headers and body arrives at slot j in this step
RepeatsDecided(i, j) ==
  /\ i # j
  /\ requests[i].approval.type \in {"allow-forever", "reject-forever"}
  /\ requests[i].pc \in {"fetching", "done"}
  /\ Arrives(j)
  /\ requests'[j].input = requests[i].input

\* C33: a request that arrives after an identical request was decided
\* allow-forever(p) or reject-forever(p), p being one of the patterns offered
\* for it, is decided by the stored lists: no approval call is made for it
C33_ForeverSticky ==
  [][\A i, j \in Slots :
       RepeatsDecided(i, j) =>
         /\ ~requests'[j].call.called
         /\ requests'[j].pc # "approval"]_vars

\* Traffic of every kind of ending, with the timer of every approval firing
\* if the approval stays open, every fetch returning and every write of the
\* config file completing
InitMixed == Start("mixed")
SpecMixed ==
  /\ InitMixed /\ [][Next]_vars
  /\ \A i \in Slots :
       /\ WF_vars(ApprovalTimeout(i))
       /\ WF_vars(FetchReturn(i))
       /\ WF_vars(SaveDone(i))

\* The statuses of the terminal outcomes: the response of the upstream, or
\* a response of the proxy
TerminalStatuses == {200, 400, 403, 500, 502}

\* C35: every request reaches a terminal outcome, the response of the
\* upstream or a 400, 403, 500 or 502 of the proxy, also when a lookup, the
\* normalizer or a write of the config file raises an error; and the outcome
\* it has reached stays the one it has until its slot is free again
C35_EveryRequestEnds ==
  /\ \A i \in Slots :
       requests[i].pc # "idle" ~>
         (requests[i].pc = "done" /\ requests[i].status \in TerminalStatuses)
  /\ [][\A i \in Slots :
          requests[i].pc = "done" =>
            requests'[i] = requests[i] \/ requests'[i] = Idle]_vars

\* A request whose grant lookup threw and a request whose write of the
\* config file failed have both been answered
C35_Witness ==
  \E i, j \in Slots :
    /\ requests[i].error = "uncaught" /\ requests[i].pc = "done"
    /\ requests[i].status = 500 /\ requests[i].lookedUp
    /\ requests[j].error = "write" /\ requests[j].pc = "done"
    /\ requests[j].status = 403

\* The ids of the approval requests made so far
Made == DOMAIN bot.calls

\* The call id has been resolved
Resolved(id) == bot.calls[id].response # <<>>

HandlersOf(id) == {key \in bot.callbackHandlers : key.requestId = id}

\* C37: after an approval is resolved nothing of it stays registered: its
\* id is not in pendingRequests, its timer is not armed and callbackHandlers
\* holds no key of its id
C37_NoTraceAfterResolution ==
  \A id \in Made :
    Resolved(id) =>
      /\ id \notin bot.pendingRequests
      /\ id \notin bot.timers
      /\ HandlersOf(id) = {}

\* The same, while no reject-forever handler of the request has resumed
\* after the resolution: the keys are those requestApproval registered
C37_NoTraceOfFirstKeys ==
  \A id \in Made :
    Resolved(id) =>
      /\ id \notin bot.pendingRequests
      /\ id \notin bot.timers
      /\ \A key \in HandlersOf(id) : key.kind = "pat:reject"

\* The update handled in this step came from a sender other than the owner
NonOwnerUpdate ==
  /\ bot'.update # bot.update
  /\ StrictlyDiffer(bot'.update.from, Number(bot.ownerId))

\* C38: only the owner decides: an update of a sender whose id differs
\* from the owner id resolves no pending approval, registers and removes
\* nothing, and leaves the grants and rejections as they are
C38_OnlyOwnerDecides ==
  [][NonOwnerUpdate =>
       /\ bot'.calls = bot.calls
       /\ bot'.pendingRequests = bot.pendingRequests
       /\ bot'.callbackHandlers = bot.callbackHandlers
       /\ bot'.timers = bot.timers
       /\ bot'.expanding = bot.expanding
       /\ config' = config]_vars

\* A sender other than the owner pressed a button of a pending approval
\* and was ignored
C38_Witness ==
  /\ bot.update.outcome = "ignored"
  /\ bot.update.data \in bot.callbackHandlers
  /\ bot.update.data.requestId \in bot.pendingRequests
  /\ bot.update.from = 8
  /\ ~Resolved(bot.update.data.requestId)

\* The earlier list is the start of the later list: every pattern of the
\* earlier list is at its place in the later one
IsPrefixOf(earlier, later) ==
  /\ Len(earlier) <= Len(later)
  /\ \A n \in DOMAIN earlier : later[n] = earlier[n]

\* C39: the grants and rejections lists are append-only: every step keeps
\* the hosts and the secrets of the config and leaves each list with the
\* earlier list as its prefix, so no pattern is removed or moves, and the
\* lists of every reachable state start with the lists of the loaded config
C39_AppendOnly ==
  /\ [][/\ DOMAIN config' = DOMAIN config
        /\ \A host \in DOMAIN config :
             /\ DOMAIN config'[host].secrets = DOMAIN config[host].secrets
             /\ \A s \in DOMAIN config[host].secrets :
                  /\ IsPrefixOf(config[host].secrets[s].grants,
                                config'[host].secrets[s].grants)
                  /\ IsPrefixOf(config[host].secrets[s].rejections,
                                config'[host].secrets[s].rejections)]_vars
  /\ [](\A host \in DOMAIN InitialConfig :
          \A s \in DOMAIN InitialConfig[host].secrets :
            /\ IsPrefixOf(InitialConfig[host].secrets[s].grants,
                          config[host].secrets[s].grants)
            /\ IsPrefixOf(InitialConfig[host].secrets[s].rejections,
                          config[host].secrets[s].rejections))

\* A grants list that was appended to twice, and a rejections list with a
\* pattern after those of the loaded config
C39_Witness ==
  \/ \E s \in DOMAIN config[ConfiguredHost].secrets :
       Len(config[ConfiguredHost].secrets[s].grants) >=
         Len(InitialConfig[ConfiguredHost].secrets[s].grants) + 2
  \/ \E s \in DOMAIN config[ConfiguredHost].secrets :
       /\ InitialConfig[ConfiguredHost].secrets[s].rejections # <<>>
       /\ Len(config[ConfiguredHost].secrets[s].rejections) >
            Len(InitialConfig[ConfiguredHost].secrets[s].rejections)

\* The query parameter of the GET request of slot i
QueryOf(i) == ParamGet(SearchParams(Req(i).url.search), <<"query">>)

\* Slot i handles a GET request to the GraphQL endpoint whose query the
\* graphql parser accepts
DocumentParsed(i) ==
  /\ requests[i].flow = "graphql"
  /\ Req(i).method = "GET"
  /\ QueryOf(i) # NULL
  /\ ParseDocument(QueryOf(i)).ok

\* What inlineFragments does for each operation of the document of slot i
InliningsOf(i) ==
  LET definitions == ParseDocument(QueryOf(i)).definitions
      fragments == FilterKind(definitions, "FragmentDefinition")
      operations == FilterKind(definitions, "OperationDefinition")
  IN {inlineFragments(operations[k].selectionSet, fragments) :
        k \in DOMAIN operations}

\* C40: fragment inlining ends for every parsed document with the expanded
\* selections or with the null result, also when fragments spread each
\* other in a cycle, and so the request is not answered with the 500 of an
\* error that left the handler
C40_InliningReturns ==
  \A i \in Slots :
    DocumentParsed(i) =>
      /\ \A inlined \in InliningsOf(i) : ~inlined.thrown
      /\ requests[i].error # "uncaught"

\* The same for the documents in which no operation reaches a fragment that
\* spreads itself, directly or through other fragments
C40_AcyclicInliningReturns ==
  \A i \in Slots :
    (DocumentParsed(i)
       /\ QueryOf(i) # <<"query{...A} fragment A on Query{...B} fragment B on Query{...A}">>) =>
      /\ \A inlined \in InliningsOf(i) : ~inlined.thrown
      /\ requests[i].error # "uncaught"

====
